---------------------------- MODULE Spec2Model ----------------------------
(***************************************************************************)
(* Model of the NeuralNetwork class (neural_network.h / neural_network.cpp)*)
(* of cpp-ml-react: construction, forward_pass, predict, backpropagate,    *)
(* train and train_for_epochs with its loss reports.                       *)
(*                                                                         *)
(* Numbers: a C++ double is modelled as a fixed-point integer, the real    *)
(* value v being the integer v * Scale.  Products are rescaled (FMul).     *)
(* Indices: C++ index k is TLA+ index k + 1.                               *)
(* A thrown std::invalid_argument is the record Thrown ([ok |-> FALSE]);   *)
(* a returned value v is Ok(v).                                            *)
(***************************************************************************)
EXTENDS Integers, Sequences, FiniteSets, TLC

\* ------------------------------------------------------------------ bounds
Scale == 8            \* fixed-point denominator of the modelled doubles
MaxSamples == 2       \* longest dataset handed to train_for_epochs
MaxEpochs == 2        \* largest epochs argument
MaxReport == 2        \* largest report_every_n_epochs argument
MaxPoints == 3        \* longest dataset given to LinearRegression
MaxIter == 7          \* largest max_iterations of a LinearRegression
MaxStr == 4           \* longest string given to a parser
MaxThreads == 2       \* threads of a parallel loop of fit
MaxCalls == 4         \* public calls made on one instance after construction,
                      \* a train_for_epochs call counting as MaxCalls - 1

\* ------------------------------------------------------- double arithmetic
FMul(a, b) == (a * b) \div Scale

RECURSIVE SumTo(_, _)
SumTo(f, n) == IF n = 0 THEN 0 ELSE SumTo(f, n - 1) + f[n]

Thrown == [ok |-> FALSE]
Ok(v) == [ok |-> TRUE, val |-> v]

\* sigmoid(x) = 1 / (1 + exp(-x)), here its piecewise-linear form
\* 1/2 + x/4 clamped to [0, 1] (TLA+ has no exp)
sigmoid(x) ==
    LET y == (Scale \div 2) + (x \div 4)
    IN  IF y < 0 THEN 0 ELSE IF y > Scale THEN Scale ELSE y

sigmoid_derivative(x) ==
    LET sig == sigmoid(x)
    IN  FMul(sig, Scale - sig)

\* ------------------------------------------------- matrix/vector helpers
\* Matrix * Vector
multiply(matrix, vector) ==
    IF Len(matrix) = 0 \/ Len(matrix[1]) # Len(vector)
    THEN Thrown
    ELSE Ok([i \in 1..Len(matrix) |->
                SumTo([j \in 1..Len(vector) |-> FMul(matrix[i][j], vector[j])],
                      Len(vector))])

add(vec1, vec2) ==
    IF Len(vec1) # Len(vec2) THEN Thrown
    ELSE Ok([i \in 1..Len(vec1) |-> vec1[i] + vec2[i]])

subtract(vec1, vec2) ==
    IF Len(vec1) # Len(vec2) THEN Thrown
    ELSE Ok([i \in 1..Len(vec1) |-> vec1[i] - vec2[i]])

elementwise_multiply(vec1, vec2) ==
    IF Len(vec1) # Len(vec2) THEN Thrown
    ELSE Ok([i \in 1..Len(vec1) |-> FMul(vec1[i], vec2[i])])

transpose(matrix) ==
    IF Len(matrix) = 0 THEN << >>
    ELSE [j \in 1..Len(matrix[1]) |-> [i \in 1..Len(matrix) |-> matrix[i][j]]]

outer_product(vec1, vec2) ==
    [i \in 1..Len(vec1) |-> [j \in 1..Len(vec2) |-> FMul(vec1[i], vec2[j])]]

\* Matrix * Scalar
multiplyMatScalar(mat, scalar) ==
    [i \in 1..Len(mat) |-> [j \in 1..Len(mat[i]) |-> FMul(mat[i][j], scalar)]]

\* Vector * Scalar
multiplyVecScalar(vec, scalar) ==
    [i \in 1..Len(vec) |-> FMul(vec[i], scalar)]

\* Matrix - Matrix
subtractMat(mat1, mat2) ==
    IF Len(mat1) # Len(mat2)
       \/ (Len(mat1) # 0 /\ Len(mat1[1]) # Len(mat2[1]))
    THEN Thrown
    ELSE Ok([i \in 1..Len(mat1) |->
                [j \in 1..Len(mat1[i]) |-> mat1[i][j] - mat2[i][j]]])

\* mean squared error of one output vector
mean_squared_error(predicted, target) ==
    IF Len(predicted) # Len(target) THEN Thrown
    ELSE Ok(SumTo([i \in 1..Len(predicted) |->
                     FMul(predicted[i] - target[i], predicted[i] - target[i])],
                  Len(predicted)) \div Len(predicted))

mean_squared_error_derivative(predicted, target) ==
    IF Len(predicted) # Len(target) THEN Thrown
    ELSE subtract(predicted, target)

\* -------------------------------------------------------- NeuralNetwork
\* The instance state is the record
\*   [layer_sizes, learning_rate, weights, biases, layer_outputs, layer_inputs]

EmptyVectors(n) == [k \in 1..n |-> << >>]

MapSigmoid(z) == [k \in 1..Len(z) |-> sigmoid(z[k])]

\* the layer loop of forward_pass from transition i on; cur is current_output
RECURSIVE forward_loop(_, _, _)
forward_loop(net, i, cur) ==
    IF i > Len(net.layer_sizes) - 1
    THEN [ok |-> TRUE, val |-> cur, net |-> net]
    ELSE LET m == multiply(net.weights[i], cur)
         IN  IF ~m.ok THEN [ok |-> FALSE, net |-> net]
             ELSE LET z == add(m.val, net.biases[i])
                  IN  IF ~z.ok THEN [ok |-> FALSE, net |-> net]
                      ELSE LET a == IF i < Len(net.layer_sizes) - 1
                                    THEN MapSigmoid(z.val)
                                    ELSE z.val
                           IN  forward_loop(
                                  [net EXCEPT !.layer_inputs[i] = z.val,
                                              !.layer_outputs[i + 1] = a],
                                  i + 1, a)

\* (a variant that leaves layer_outputs[0] empty)
forward_pass_input_not_stored(net, input) ==
    IF Len(input) # net.layer_sizes[1]
    THEN [ok |-> FALSE, net |-> net]
    ELSE forward_loop(
            [net EXCEPT
               !.layer_outputs = EmptyVectors(Len(net.layer_sizes)),
               !.layer_inputs = EmptyVectors(Len(net.layer_sizes) - 1)],
            1, input)

forward_pass(net, input) ==
    IF Len(input) # net.layer_sizes[1]
    THEN [ok |-> FALSE, net |-> net]
    ELSE forward_loop(
            [net EXCEPT
               !.layer_outputs =
                   [EmptyVectors(Len(net.layer_sizes)) EXCEPT ![1] = input],
               !.layer_inputs = EmptyVectors(Len(net.layer_sizes) - 1)],
            1, input)

\* (a variant of the iteration that stores z and the activation in the members)
predict_layer_storing(net, i, cur) ==
    LET m == multiply(net.weights[i], cur)
    IN  IF ~m.ok THEN [ok |-> FALSE, net |-> net]
        ELSE LET z == add(m.val, net.biases[i])
             IN  IF ~z.ok THEN [ok |-> FALSE, net |-> net]
                 ELSE LET a == IF i < Len(net.layer_sizes) - 1
                               THEN MapSigmoid(z.val)
                               ELSE z.val
                      IN  [ok |-> TRUE, val |-> a,
                           net |-> [net EXCEPT !.layer_inputs[i] = z.val,
                                               !.layer_outputs[i + 1] = a]]

\* (a variant of the iteration that applies the sigmoid at every layer)
predict_layer_sigmoid_output(net, i, cur) ==
    LET m == multiply(net.weights[i], cur)
    IN  IF ~m.ok THEN [ok |-> FALSE, net |-> net]
        ELSE LET z == add(m.val, net.biases[i])
             IN  IF ~z.ok THEN [ok |-> FALSE, net |-> net]
                 ELSE [ok |-> TRUE, val |-> MapSigmoid(z.val), net |-> net]

\* (a variant of the iteration that computes z in place, in the bias vector)
predict_layer_in_place(net, i, cur) ==
    LET m == multiply(net.weights[i], cur)
    IN  IF ~m.ok THEN [ok |-> FALSE, net |-> net]
        ELSE LET z == add(m.val, net.biases[i])
             IN  IF ~z.ok THEN [ok |-> FALSE, net |-> net]
                 ELSE [ok |-> TRUE,
                       val |-> IF i < Len(net.layer_sizes) - 1
                               THEN MapSigmoid(z.val)
                               ELSE z.val,
                       net |-> [net EXCEPT !.biases[i] = z.val]]

\* one iteration of the layer loop of predict: z and the activation are
\* locals, no member is written
predict_layer(net, i, cur) ==
    LET m == multiply(net.weights[i], cur)
    IN  IF ~m.ok THEN [ok |-> FALSE, net |-> net]
        ELSE LET z == add(m.val, net.biases[i])
             IN  IF ~z.ok THEN [ok |-> FALSE, net |-> net]
                 ELSE [ok |-> TRUE,
                       val |-> IF i < Len(net.layer_sizes) - 1
                               THEN MapSigmoid(z.val)
                               ELSE z.val,
                       net |-> net]

RECURSIVE predict_loop(_, _, _)
predict_loop(net, i, cur) ==
    IF i > Len(net.layer_sizes) - 1
    THEN [ok |-> TRUE, val |-> cur, net |-> net]
    ELSE LET r == predict_layer(net, i, cur)
         IN  IF ~r.ok THEN r ELSE predict_loop(r.net, i + 1, r.val)

\* (a variant with the comparison inverted)
predict_rejects_inverted(net, input) == Len(input) = net.layer_sizes[1]

\* the size check that opens predict
predict_rejects(net, input) == Len(input) # net.layer_sizes[1]

\* (a variant that runs the storing forward pass)
predict_by_forward_pass(net, input) == forward_pass(net, input)

predict(net, input) ==
    IF predict_rejects(net, input)
    THEN [ok |-> FALSE, net |-> net]
    ELSE predict_loop(net, 1, input)

\* step 3 of backpropagate: deltas[k] for k = num_layers - 2 down to 1,
\* deltas being filled from its last entry backwards
RECURSIVE delta_loop(_, _, _)
delta_loop(net, k, deltas) ==
    IF k < 1 THEN Ok(deltas)
    ELSE LET W_T == transpose(net.weights[k + 1])
             propagated_delta == multiply(W_T, deltas[k + 1])
             layer_input == net.layer_inputs[k]
             sigmoid_deriv_hidden ==
                 [j \in 1..Len(layer_input) |-> sigmoid_derivative(layer_input[j])]
         IN  IF ~propagated_delta.ok THEN Thrown
             ELSE LET d == elementwise_multiply(propagated_delta.val,
                                                sigmoid_deriv_hidden)
                  IN  IF ~d.ok THEN Thrown
                      ELSE delta_loop(net, k - 1, [deltas EXCEPT ![k] = d.val])

\* (a variant that updates the weights of the last layer before it walks
\* back through them)
compute_deltas_through_updated_weights(net, predicted_output, target) ==
    LET num_layers == Len(net.layer_sizes)
        error_derivative == mean_squared_error_derivative(predicted_output, target)
    IN  IF ~error_derivative.ok THEN Thrown
        ELSE LET grad_W == outer_product(error_derivative.val,
                                         net.layer_outputs[num_layers - 1])
                 w == subtractMat(net.weights[num_layers - 1],
                                  multiplyMatScalar(grad_W, net.learning_rate))
             IN  IF ~w.ok THEN Thrown
                 ELSE delta_loop([net EXCEPT !.weights[num_layers - 1] = w.val],
                                 num_layers - 2,
                                 [EmptyVectors(num_layers - 1) EXCEPT
                                     ![num_layers - 1] = error_derivative.val])

\* steps 2 and 3 of backpropagate, after the forward pass returned predicted
compute_deltas(net, predicted_output, target) ==
    LET num_layers == Len(net.layer_sizes)
        error_derivative == mean_squared_error_derivative(predicted_output, target)
    IN  IF ~error_derivative.ok THEN Thrown
        ELSE delta_loop(net, num_layers - 2,
                        [EmptyVectors(num_layers - 1) EXCEPT
                            ![num_layers - 1] = error_derivative.val])

\* (a variant of the iteration that leaves the biases as they are)
update_layer_weights_only(net, deltas, i) ==
    LET grad_W == outer_product(deltas[i], net.layer_outputs[i])
        w == subtractMat(net.weights[i],
                         multiplyMatScalar(grad_W, net.learning_rate))
    IN  IF ~w.ok THEN [ok |-> FALSE, net |-> net]
        ELSE [ok |-> TRUE, net |-> [net EXCEPT !.weights[i] = w.val]]

\* one iteration of the update loop (step 4) of backpropagate
update_layer(net, deltas, i) ==
    LET current_delta == deltas[i]
        prev_layer_output == net.layer_outputs[i]
        grad_W == outer_product(current_delta, prev_layer_output)
        grad_b == current_delta
        w == subtractMat(net.weights[i],
                         multiplyMatScalar(grad_W, net.learning_rate))
    IN  IF ~w.ok THEN [ok |-> FALSE, net |-> net]
        ELSE LET net1 == [net EXCEPT !.weights[i] = w.val]
                 b == subtract(net.biases[i],
                               multiplyVecScalar(grad_b, net.learning_rate))
             IN  IF ~b.ok THEN [ok |-> FALSE, net |-> net1]
                 ELSE [ok |-> TRUE, net |-> [net1 EXCEPT !.biases[i] = b.val]]

RECURSIVE update_loop(_, _, _)
update_loop(net, deltas, i) ==
    IF i > Len(net.layer_sizes) - 1 THEN [ok |-> TRUE, net |-> net]
    ELSE LET u == update_layer(net, deltas, i)
         IN  IF ~u.ok THEN u ELSE update_loop(u.net, deltas, i + 1)

\* (a variant that runs the forward pass only when no stored pass is there)
backpropagate_reusing_stored_pass(net, input, target) ==
    LET stored == net.layer_outputs # << >>
        fp == IF stored
              THEN [ok |-> Len(input) = net.layer_sizes[1],
                    val |-> net.layer_outputs[Len(net.layer_outputs)],
                    net |-> net]
              ELSE forward_pass(net, input)
    IN  IF ~fp.ok THEN [ok |-> FALSE, net |-> fp.net]
        ELSE IF Len(target) # fp.net.layer_sizes[Len(fp.net.layer_sizes)]
        THEN [ok |-> FALSE, net |-> fp.net]
        ELSE LET deltas == compute_deltas(fp.net, fp.val, target)
             IN  IF ~deltas.ok THEN [ok |-> FALSE, net |-> fp.net]
                 ELSE update_loop(fp.net, deltas.val, 1)

backpropagate(net, input, target) ==
    LET fp == forward_pass(net, input)
    IN  IF ~fp.ok THEN [ok |-> FALSE, net |-> fp.net]
        ELSE IF Len(target) # fp.net.layer_sizes[Len(fp.net.layer_sizes)]
        THEN [ok |-> FALSE, net |-> fp.net]
        ELSE LET deltas == compute_deltas(fp.net, fp.val, target)
             IN  IF ~deltas.ok THEN [ok |-> FALSE, net |-> fp.net]
                 ELSE update_loop(fp.net, deltas.val, 1)

train(net, input, target) == backpropagate(net, input, target)

\* ------------------------------------------- LinearRegression arithmetic
\* The doubles of LinearRegression are exact rationals [n, d] in lowest
\* terms with d > 0; d = 0 holds the IEEE specials: n = 1 is +infinity,
\* n = -1 is -infinity, n = 0 is NaN.  Rounding is not modelled.
Abs(k) == IF k < 0 THEN -k ELSE k
Sign(k) == IF k < 0 THEN -1 ELSE IF k > 0 THEN 1 ELSE 0

RECURSIVE GCD(_, _)
GCD(a, b) == IF b = 0 THEN a ELSE GCD(b, a % b)

RNorm(n, d) ==
    IF d = 0 THEN [n |-> Sign(n), d |-> 0]
    ELSE LET g == GCD(Abs(n), Abs(d))
         IN  [n |-> Sign(d) * (n \div g), d |-> Abs(d) \div g]

R(k) == [n |-> k, d |-> 1]
Zero == R(0)
One == R(1)
Infinity == [n |-> 1, d |-> 0]
quiet_NaN == [n |-> 0, d |-> 0]

isfinite(a) == a.d # 0
isnan(a) == a.d = 0 /\ a.n = 0

RNeg(a) == [n |-> -a.n, d |-> a.d]

RAdd(a, b) ==
    IF isnan(a) \/ isnan(b) THEN quiet_NaN
    ELSE IF ~isfinite(a) THEN (IF ~isfinite(b) /\ b.n # a.n THEN quiet_NaN ELSE a)
    ELSE IF ~isfinite(b) THEN b
    ELSE LET g == GCD(a.d, b.d)
         IN  RNorm(a.n * (b.d \div g) + b.n * (a.d \div g), (a.d \div g) * b.d)

RSub(a, b) == RAdd(a, RNeg(b))

RMul(a, b) ==
    IF isnan(a) \/ isnan(b) THEN quiet_NaN
    ELSE IF ~isfinite(a) \/ ~isfinite(b)
    THEN [n |-> Sign(a.n) * Sign(b.n), d |-> 0]
    ELSE LET g1 == GCD(Abs(a.n), b.d)
             g2 == GCD(Abs(b.n), a.d)
         IN  RNorm((a.n \div g1) * (b.n \div g2), (a.d \div g2) * (b.d \div g1))

\* a / b with b a non-negative zero when it is zero
RDiv(a, b) ==
    IF isnan(a) \/ isnan(b) THEN quiet_NaN
    ELSE IF ~isfinite(b) THEN (IF ~isfinite(a) THEN quiet_NaN ELSE Zero)
    ELSE IF ~isfinite(a) THEN [n |-> a.n * (IF b.n < 0 THEN -1 ELSE 1), d |-> 0]
    ELSE IF b.n = 0 THEN [n |-> Sign(a.n), d |-> 0]
    ELSE RMul(a, RNorm(b.d, b.n))

\* a < b; every comparison with NaN is false
RLt(a, b) ==
    IF isnan(a) \/ isnan(b) THEN FALSE
    ELSE IF ~isfinite(a) THEN a.n < 0 /\ ~(~isfinite(b) /\ b.n < 0)
    ELSE IF ~isfinite(b) THEN b.n > 0
    ELSE RSub(a, b).n < 0

RMax(a, b) == IF RLt(a, b) THEN b ELSE a
RAbs(a) == [n |-> Abs(a.n), d |-> a.d]

\* fabs(a) < 10^-k, for finite a
RECURSIVE BelowPow10(_, _)
BelowPow10(a, k) ==
    IF k = 0 THEN RLt(RAbs(a), One)
    ELSE IF ~RLt(RAbs(a), One) THEN FALSE
    ELSE BelowPow10(RMul(R(10), a), k - 1)

\* a > 10^-k * b, for finite a and finite b >= 0
RECURSIVE ExceedsScaled(_, _, _)
ExceedsScaled(a, b, k) ==
    IF k = 0 THEN RLt(b, a)
    ELSE IF RLt(b, a) THEN TRUE
    ELSE IF ~RLt(Zero, a) THEN FALSE
    ELSE ExceedsScaled(RMul(R(10), a), b, k - 1)

\* sum of f[1..n]
RECURSIVE RSum(_, _)
RSum(f, n) == IF n = 0 THEN Zero ELSE RAdd(RSum(f, n - 1), f[n])

\* ------------------------------------------------------ LinearRegression
\* The instance is the record
\*   [slope, intercept, learning_rate, max_iterations, batch_size]
\* (a variant that initialises slope from the learning rate)
LinearRegression_slope_from_lr(lr, max_iter, batch_size) ==
    [slope |-> lr, intercept |-> Zero, learning_rate |-> lr,
     max_iterations |-> max_iter, batch_size |-> batch_size]

LinearRegression(lr, max_iter, batch_size) ==
    [slope |-> Zero, intercept |-> Zero, learning_rate |-> lr,
     max_iterations |-> max_iter, batch_size |-> batch_size]

\* the default arguments of the constructor
default_lr == [n |-> 1, d |-> 100]
default_max_iter == 1000
default_batch_size == 32

LR_predict(m, x) == RAdd(RMul(m.slope, x), m.intercept)

LR_mean(vec) ==
    IF Len(vec) = 0 THEN Thrown
    ELSE Ok(RDiv(RSum(vec, Len(vec)), R(Len(vec))))

\* (a variant that rejects the empty dataset like get_r_squared does)
LR_mean_squared_error_strict(m, X, y) ==
    IF Len(X) # Len(y) \/ Len(X) = 0 THEN Thrown
    ELSE Ok(RDiv(RSum([k \in 1..Len(X) |->
                         LET e == RSub(LR_predict(m, X[k]), y[k])
                         IN  RMul(e, e)],
                      Len(X)),
                 R(Len(X))))

LR_mean_squared_error(m, X, y) ==
    IF Len(X) # Len(y) THEN Thrown
    ELSE IF Len(X) = 0 THEN Ok(Zero)
    ELSE Ok(RDiv(RSum([k \in 1..Len(X) |->
                         LET e == RSub(LR_predict(m, X[k]), y[k])
                         IN  RMul(e, e)],
                      Len(X)),
                 R(Len(X))))

get_mse(m, X, y) == LR_mean_squared_error(m, X, y)

get_r_squared(m, X, y) ==
    IF Len(X) # Len(y) \/ Len(X) = 0 THEN Thrown
    ELSE LET y_mean == LR_mean(y).val
             tss == RSum([k \in 1..Len(y) |->
                            LET diff == RSub(y[k], y_mean)
                            IN  RMul(diff, diff)],
                         Len(y))
             rss == RMul(LR_mean_squared_error(m, X, y).val, R(Len(X)))
         IN  Ok(RSub(One, RDiv(rss, tss)))

\* the two checks that open fit_analytical
fit_analytical_rejects(X, y) == Len(X) # Len(y) \/ Len(X) = 0

\* (a variant that divides whatever the denominator is)
analytical_slope_unguarded(numerator, denominator) == RDiv(numerator, denominator)

\* the slope of fit_analytical from the two sums
analytical_slope(numerator, denominator) ==
    IF BelowPow10(denominator, 10) THEN Zero
    ELSE RDiv(numerator, denominator)

\* (a variant with the intercept of a line through the origin)
analytical_intercept_origin(mean_x, mean_y, slope) == Zero

analytical_intercept(mean_x, mean_y, slope) == RSub(mean_y, RMul(slope, mean_x))

fit_analytical(m, X, y) ==
    IF fit_analytical_rejects(X, y) THEN [ok |-> FALSE, model |-> m]
    ELSE LET n == Len(X)
             mean_x == LR_mean(X).val
             mean_y == LR_mean(y).val
             numerator == RSum([k \in 1..n |->
                                  RMul(RSub(X[k], mean_x), RSub(y[k], mean_y))], n)
             denominator == RSum([k \in 1..n |->
                                    RMul(RSub(X[k], mean_x), RSub(X[k], mean_x))], n)
             s == analytical_slope(numerator, denominator)
         IN  [ok |-> TRUE,
              model |-> [m EXCEPT !.slope = s,
                                  !.intercept = analytical_intercept(mean_x, mean_y, s)]]

\* (a variant that lets a zero batch size through)
fit_rejects_negative_batch(m, X, y) ==
    Len(X) # Len(y) \/ Len(X) = 0 \/ m.batch_size < 0

\* the three checks that open fit
fit_rejects(m, X, y) == Len(X) # Len(y) \/ Len(X) = 0 \/ m.batch_size <= 0

tolerance_digits == 6     \* tolerance = 1e-6
patience == 5

Min(a, b) == IF a < b THEN a ELSE b

\* the first loop of a mini-batch: the positions idx whose X[idx], y[idx]
\* are copied to batch_X, batch_y
batch_samples(m, n_samples, indices, batch_start) ==
    [k \in 1..Min(m.batch_size, n_samples - batch_start) |-> indices[batch_start + k]]

\* (a variant that scales every gradient by 1 / batch_size)
fit_batch_nominal_scale(m, X, y, indices, batch_start) ==
    LET current_batch_size == Min(m.batch_size, Len(X) - batch_start)
        batch_X == [k \in 1..current_batch_size |-> X[indices[batch_start + k]]]
        batch_y == [k \in 1..current_batch_size |-> y[indices[batch_start + k]]]
        error == [k \in 1..current_batch_size |->
                    RSub(LR_predict(m, batch_X[k]), batch_y[k])]
        slope_gradient == RSum([k \in 1..current_batch_size |->
                                  RMul(error[k], batch_X[k])], current_batch_size)
        intercept_gradient == RSum(error, current_batch_size)
        batch_scale == RDiv(One, R(m.batch_size))
    IN  [m EXCEPT
           !.slope = RSub(@, RMul(m.learning_rate, RMul(slope_gradient, batch_scale))),
           !.intercept = RSub(@, RMul(m.learning_rate,
                                      RMul(intercept_gradient, batch_scale)))]

\* one mini-batch of fit: the samples indices[batch_start + 1 ..] of the
\* current shuffle, batch_start counting from 0
fit_batch(m, X, y, indices, batch_start) ==
    LET current_batch_size == Min(m.batch_size, Len(X) - batch_start)
        batch_X == [k \in 1..current_batch_size |-> X[indices[batch_start + k]]]
        batch_y == [k \in 1..current_batch_size |-> y[indices[batch_start + k]]]
        error == [k \in 1..current_batch_size |->
                    RSub(LR_predict(m, batch_X[k]), batch_y[k])]
        slope_gradient == RSum([k \in 1..current_batch_size |->
                                  RMul(error[k], batch_X[k])], current_batch_size)
        intercept_gradient == RSum(error, current_batch_size)
        batch_scale == RDiv(One, R(current_batch_size))
    IN  [m EXCEPT
           !.slope = RSub(@, RMul(m.learning_rate, RMul(slope_gradient, batch_scale))),
           !.intercept = RSub(@, RMul(m.learning_rate,
                                      RMul(intercept_gradient, batch_scale)))]

\* (a variant without the first-epoch clause)
improves_finite_only(best_mse, epoch_mse) ==
    /\ isfinite(best_mse) /\ isfinite(epoch_mse)
    /\ ExceedsScaled(RSub(best_mse, epoch_mse), RMax(One, best_mse), tolerance_digits)

\* (a variant that records the first epoch only)
improves_first_epoch_only(best_mse, epoch_mse) == ~isfinite(best_mse)

\* the early stopping test that ends an epoch of fit
improves(best_mse, epoch_mse) ==
    \/ ~isfinite(best_mse)
    \/ /\ isfinite(epoch_mse)
       /\ ExceedsScaled(RSub(best_mse, epoch_mse), RMax(One, best_mse), tolerance_digits)

\* ------------------------------------------------------- driver: parsing
\* A std::string is the sequence of its characters.
Digits == { "0", "1", "2", "3", "4", "5", "6", "7", "8", "9" }
DigitValue(c) ==
    CASE c = "0" -> 0 [] c = "1" -> 1 [] c = "2" -> 2 [] c = "3" -> 3
      [] c = "4" -> 4 [] c = "5" -> 5 [] c = "6" -> 6 [] c = "7" -> 7
      [] c = "8" -> 8 [] c = "9" -> 9

\* the items successive std::getline(ss, item, delim) calls yield from the
\* k-th character of s on: at the end of the stream a call that extracts
\* no character fails, so no empty item follows a trailing delimiter
RECURSIVE getline_items(_, _, _, _, _)
getline_items(s, delim, k, item, acc) ==
    IF k > Len(s) THEN (IF item = << >> THEN acc ELSE Append(acc, item))
    ELSE IF s[k] = delim
    THEN getline_items(s, delim, k + 1, << >>, Append(acc, item))
    ELSE getline_items(s, delim, k + 1, Append(item, s[k]), acc)

\* first index from k on that holds no white space
RECURSIVE skip_space(_, _)
skip_space(s, k) ==
    IF k <= Len(s) /\ s[k] = " " THEN skip_space(s, k + 1) ELSE k

\* the decimal digits of s from index k on: their value and the index
\* after the last of them
RECURSIVE scan_digits(_, _, _)
scan_digits(s, k, acc) ==
    IF k <= Len(s) /\ s[k] \in Digits
    THEN scan_digits(s, k + 1, acc * 10 + DigitValue(s[k]))
    ELSE [val |-> acc, end |-> k]

\* the scan shared by std::strtod and std::strtoul(.., 10) for strings of
\* white space, signs and decimal digits: white space is skipped, a sign is
\* taken, digits are converted; without a digit nothing is converted and
\* end is the start of the string.  end = Len(s) + 1 is the final '\0'.
scan_number(s) ==
    LET p == skip_space(s, 1)
        signed == p <= Len(s) /\ s[p] \in {"-", "+"}
        q == IF signed THEN p + 1 ELSE p
        d == scan_digits(s, q, 0)
    IN  IF d.end = q THEN [val |-> 0, end |-> 1]
        ELSE [val |-> IF signed /\ s[p] = "-" THEN -d.val ELSE d.val, end |-> d.end]

\* std::strtod, the double d being d * Scale
strtod(s) == [val |-> scan_number(s).val * Scale, end |-> scan_number(s).end]
strtoul(s) == scan_number(s)

\* the body of parseVector's loop for one item (the digits of the model's
\* strings never convert to an infinity or a NaN)
parseVector_item(item) ==
    IF strtod(item).end <= Len(item) THEN Thrown
    ELSE Ok(strtod(item).val)

RECURSIVE parseVector_loop(_, _, _)
parseVector_loop(items, k, result) ==
    IF k > Len(items) THEN Ok(result)
    ELSE LET v == parseVector_item(items[k])
         IN  IF ~v.ok THEN Thrown
             ELSE parseVector_loop(items, k + 1, Append(result, v.val))

parseVector(s) ==
    IF s = << >> THEN Ok(<< >>)
    ELSE parseVector_loop(getline_items(s, ",", 1, << >>, << >>), 1, << >>)

\* the body of parseLayerSizes' loop for one non-empty item
parseLayerSizes_item(item) ==
    LET val_ul == strtoul(item).val
    IN  IF strtoul(item).end <= Len(item) \/ (val_ul = 0 /\ item # <<"0">>)
        THEN Thrown
        ELSE IF val_ul = 0 THEN Thrown
        ELSE Ok(val_ul)

\* the test that makes the loop of parseLayerSizes pass over an item
skips_item(item) == item = << >>

RECURSIVE parseLayerSizes_loop(_, _, _)
parseLayerSizes_loop(items, k, result) ==
    IF k > Len(items) THEN Ok(result)
    ELSE IF skips_item(items[k]) THEN parseLayerSizes_loop(items, k + 1, result)
    ELSE LET v == parseLayerSizes_item(items[k])
         IN  IF ~v.ok THEN Thrown
             ELSE parseLayerSizes_loop(items, k + 1, Append(result, v.val))

parseLayerSizes(s) ==
    LET result == parseLayerSizes_loop(getline_items(s, "-", 1, << >>, << >>),
                                       1, << >>)
    IN  IF ~result.ok THEN Thrown
        ELSE IF Len(result.val) < 2 THEN Thrown
        ELSE result

\* line.erase of the white space at both ends
RECURSIVE trim_back(_)
trim_back(s) ==
    IF Len(s) > 0 /\ s[Len(s)] = " " THEN trim_back(SubSeq(s, 1, Len(s) - 1)) ELSE s
trim(s) == trim_back(SubSeq(s, skip_space(s, 1), Len(s)))

\* readAndParseVectorFromStdin on a line that std::getline delivered
readAndParseVectorFromStdin(line) == parseVector(trim(line))

\* ------------------------------------------------------------ input sets
LayerChoices == { << >>, <<1>>, <<1, 1>>, <<1, 2, 1>> }
LearningRates == { 0, Scale \div 2 }
Seeds == { 1 }
Vecs == { <<0>>, <<Scale>>, <<Scale, 4>> }
TargetVecs == { <<Scale>>, <<Scale, 4>> }

SeqsUpTo(S, n) == UNION { [1..k -> S] : k \in 0..n }
\* the datasets given to train_for_epochs: any two lengths, and at most one
\* vector that is not a scalar among the inputs and targets together
NonScalars(seq) == Cardinality({k \in 1..Len(seq) : Len(seq[k]) # 1})
Datasets ==
    { d \in SeqsUpTo(Vecs, MaxSamples) \X SeqsUpTo(TargetVecs, MaxSamples) :
         NonScalars(d[1]) + NonScalars(d[2]) <= 1 }
Perms(n) == { p \in [1..n -> 1..n] : \A a, b \in 1..n : p[a] = p[b] => a = b }

\* ------------------------------------------------------------------ state
VARIABLES
    status,          \* "unconstructed", "ok" or "ctor_failed" (constructor threw)
    ctor_arg,        \* the layer_sizes argument given to the constructor
    layer_sizes, learning_rate, weights, biases,    \* NeuralNetwork members
    layer_outputs, layer_inputs,                    \* NeuralNetwork members
    call,            \* the public call in progress or last finished
    calls,           \* number of public calls made so far
    memo,            \* the predict calls since the last training step: their
                     \* <<input, output>> pairs and their number
    pc,              \* position inside train_for_epochs
    inputs, targets, epochs, report_every_n_epochs, \* arguments of train_for_epochs
    epoch, indices, i, \* locals of train_for_epochs
    steps,           \* backpropagate calls completed by the running train_for_epochs
    cout,            \* std::cout: lines flushed to the reader and lines still buffered
    bp,              \* a thread inside backpropagate: position, arguments, locals,
                     \* and the instance as it was at entry
    pr,              \* a thread inside predict: position, argument, locals, and
                     \* where backpropagate stood at predict's last layer
    expect,          \* what backpropagate alone would have done from bp's entry state
    model,           \* the LinearRegression instance
    data,            \* the vectors X and y its caller holds
    mcall,           \* the LinearRegression call in progress or last finished
    fit,             \* position and locals of a running fit
    parsed,          \* the last call of parseVector or parseLayerSizes
    drv              \* the driver: position in main, arguments, lines read

nnVars == <<layer_sizes, learning_rate, weights, biases, layer_outputs, layer_inputs>>
tfeArgs == <<inputs, targets, epochs, report_every_n_epochs>>
tfeVars == <<pc, inputs, targets, epochs, report_every_n_epochs, epoch, indices, i, steps>>
vars == <<status, ctor_arg, layer_sizes, learning_rate, weights, biases,
          layer_outputs, layer_inputs, call, calls, memo, pc, inputs, targets,
          epochs, report_every_n_epochs, epoch, indices, i, steps, cout,
          bp, pr, expect, model, data, mcall, fit, parsed, drv>>
threadVars == <<bp, pr, expect>>
lrVars == <<model, data, mcall, fit>>
extVars == <<lrVars, parsed, drv>>

Net == [layer_sizes |-> layer_sizes, learning_rate |-> learning_rate,
        weights |-> weights, biases |-> biases,
        layer_outputs |-> layer_outputs, layer_inputs |-> layer_inputs]

SetNet(net) ==
    /\ layer_sizes' = net.layer_sizes
    /\ learning_rate' = net.learning_rate
    /\ weights' = net.weights
    /\ biases' = net.biases
    /\ layer_outputs' = net.layer_outputs
    /\ layer_inputs' = net.layer_inputs

\* record of a public call: arguments, outcome ("running", "ok" or
\* "InvalidArgument"), returned value, and the instance and the length of
\* std::cout as they were at entry
MkCall(op, input, target, outcome, ret, pre, cout0) ==
    [op |-> op, input |-> input, target |-> target, outcome |-> outcome,
     ret |-> ret, pre |-> pre, cout0 |-> cout0]

NoMemo == [seen |-> {}, n |-> 0]

\* record of a LinearRegression call: whether an instance exists, the
\* operation, which vectors it was given (or the x of predict), its outcome ("running", "ok" or
\* "InvalidArgument"), the returned value, the instance at entry, and
\* whether a fit or fit_analytical call has succeeded
NoModelCall ==
    [constructed |-> FALSE, op |-> "none", which |-> "empty", x |-> Zero,
     outcome |-> "none", ret |-> Zero, pre |-> LinearRegression(Zero, 0, 0),
     fitted |-> FALSE]

\* locals of fit; epochs_run counts the completed passes of its outer loop,
\* stopped tells whether the loop was left by the break, epoch_mses holds
\* the epoch_mse of every pass so far, batches the samples (positions in X)
\* each mini-batch of the current pass was filled with.  Of a mini-batch
\* run by threads: todo holds the iterations of the running parallel loop
\* no thread has taken yet, batch_X and batch_y are the batch vectors, sums
\* the copies of slope_gradient and intercept_gradient (copy 0 the shared
\* variables, copy t the one private to thread t), w the threads (position,
\* iteration, and the sums about to be stored), overlapped whether two
\* threads were inside an iteration of the gradient loop at once
NoFit ==
    [pc |-> "idle", indices |-> << >>, iter |-> 0, batch_start |-> 0,
     best_mse |-> Infinity, no_improvement_count |-> 0,
     epochs_run |-> 0, stopped |-> FALSE,
     epoch_mses |-> << >>, batches |-> << >>,
     todo |-> {}, batch_X |-> << >>, batch_y |-> << >>, sums |-> << >>,
     w |-> << >>, overlapped |-> FALSE]

\* main before it has run: its position ("start", "run" between the checks
\* and the output, "done" after return 0, "exit1" after return 1), argv[2..4],
\* the two lines of standard input, and its locals
NoDriver ==
    [pc |-> "start", layers |-> << >>, lr |-> << >>, eps |-> << >>,
     xline |-> << >>, yline |-> << >>,
     layer_sizes |-> << >>, learning_rate |-> 0, epochs |-> 0,
     X_train_flat |-> << >>, y_train_flat |-> << >>, cout0 |-> 0]

Init ==
    /\ status = "unconstructed"
    /\ ctor_arg = << >>
    /\ layer_sizes = << >> /\ learning_rate = 0
    /\ weights = << >> /\ biases = << >>
    /\ layer_outputs = << >> /\ layer_inputs = << >>
    /\ call = MkCall("none", << >>, << >>, "none", << >>, Net, 0)
    /\ calls = 0
    /\ memo = NoMemo
    /\ pc = "idle"
    /\ inputs = << >> /\ targets = << >>
    /\ epochs = 0 /\ report_every_n_epochs = 1
    /\ epoch = 0 /\ indices = << >> /\ i = 0 /\ steps = 0
    /\ cout = [flushed |-> << >>, buffer |-> << >>]
    /\ bp = [pc |-> "idle", input |-> << >>, target |-> << >>,
             predicted_output |-> << >>, deltas |-> << >>, i |-> 0, entry |-> Net]
    /\ pr = [pc |-> "idle", input |-> << >>, i |-> 0, current_output |-> << >>,
             during |-> "none"]
    /\ expect = [ok |-> TRUE, net |-> Net]
    /\ model = LinearRegression(Zero, 0, 0)
    /\ data = [X |-> << >>, y |-> << >>]
    /\ mcall = NoModelCall
    /\ fit = NoFit
    /\ parsed = [fn |-> "none", s |-> << >>, ok |-> TRUE, val |-> << >>]
    /\ drv = NoDriver

\* --------------------------------------------------------- construction
\* the k-th draw of a generator seeded with seed: weights in (-0.5, 0.5),
\* biases in [0, 0.1)
dis(seed, k) == ((seed * 3 + k * 5) % 7) - 3
bias_dis(seed, k) == 0

\* sqrt(1.0 / cols) in fixed point
ISqrt(n) == CHOOSE r \in 0..n : r * r <= n /\ n < (r + 1) * (r + 1)
sqrt_inv(cols) == ISqrt((Scale * Scale) \div cols)

\* number of draws made before the loop reaches transition t
RECURSIVE draws_before(_, _)
draws_before(sizes, t) ==
    IF t = 1 THEN 0
    ELSE draws_before(sizes, t - 1) + sizes[t] * sizes[t - 1] + sizes[t]

\* (a variant with rows and columns exchanged)
initialize_weights_biases_swapped(sizes, seed) ==
    [weights |->
        [t \in 1..Len(sizes) - 1 |->
            LET rows == sizes[t]
                cols == sizes[t + 1]
            IN  [r \in 1..rows |->
                    [c \in 1..cols |->
                        FMul(dis(seed, draws_before(sizes, t) + (r - 1) * cols + c),
                             sqrt_inv(cols))]]],
     biases |->
        [t \in 1..Len(sizes) - 1 |->
            LET rows == sizes[t + 1]
                cols == sizes[t]
            IN  [r \in 1..rows |->
                    bias_dis(seed, draws_before(sizes, t) + rows * cols + r)]]]

\* weights_[t] gets sizes[t+1] rows of sizes[t] columns, biases_[t] gets
\* sizes[t+1] entries, drawn in the order of the loops
initialize_weights_biases(sizes, seed) ==
    [weights |->
        [t \in 1..Len(sizes) - 1 |->
            LET rows == sizes[t + 1]
                cols == sizes[t]
            IN  [r \in 1..rows |->
                    [c \in 1..cols |->
                        FMul(dis(seed, draws_before(sizes, t) + (r - 1) * cols + c),
                             sqrt_inv(cols))]]],
     biases |->
        [t \in 1..Len(sizes) - 1 |->
            LET rows == sizes[t + 1]
                cols == sizes[t]
            IN  [r \in 1..rows |->
                    bias_dis(seed, draws_before(sizes, t) + rows * cols + r)]]]

\* (a variant that is off by one)
ctor_rejects_only_empty(sizes) == Len(sizes) < 1
ctor_rejects(sizes) == Len(sizes) < 2

Construct(sizes, lr, seed) ==
    /\ UNCHANGED <<threadVars, extVars>>
    /\ status = "unconstructed"
    /\ ctor_arg' = sizes
    /\ IF ctor_rejects(sizes)
       THEN /\ status' = "ctor_failed"
            /\ UNCHANGED nnVars
       ELSE LET wb == initialize_weights_biases(sizes, seed)
            IN  /\ status' = "ok"
                /\ layer_sizes' = sizes
                /\ learning_rate' = lr
                /\ weights' = wb.weights
                /\ biases' = wb.biases
                /\ UNCHANGED <<layer_outputs, layer_inputs>>
    /\ UNCHANGED <<call, calls, memo, tfeVars, cout>>

\* ------------------------------------------------- single public calls
CanCall == status = "ok" /\ pc = "idle" /\ calls < MaxCalls

Outcome(ok) == IF ok THEN "ok" ELSE "InvalidArgument"

Predict(input) ==
    /\ UNCHANGED <<threadVars, extVars>>
    /\ CanCall
    /\ LET r == predict(Net, input)
       IN  /\ SetNet(r.net)
           /\ call' = MkCall("predict", input, << >>, Outcome(r.ok),
                             IF r.ok THEN r.val ELSE << >>, Net, Len(cout.flushed \o cout.buffer))
           /\ memo' = IF r.ok
                      THEN [seen |-> memo.seen \cup {<<input, r.val>>}, n |-> memo.n + 1]
                      ELSE memo
    /\ calls' = calls + 1
    /\ UNCHANGED <<status, ctor_arg, tfeVars, cout>>

ForwardPass(input) ==
    /\ UNCHANGED <<threadVars, extVars>>
    /\ CanCall
    /\ LET r == forward_pass(Net, input)
       IN  /\ SetNet(r.net)
           /\ call' = MkCall("forward_pass", input, << >>, Outcome(r.ok),
                             IF r.ok THEN r.val ELSE << >>, Net, Len(cout.flushed \o cout.buffer))
    /\ calls' = calls + 1
    /\ UNCHANGED <<status, ctor_arg, memo, tfeVars, cout>>

Train(input, target) ==
    /\ UNCHANGED <<threadVars, extVars>>
    /\ CanCall
    /\ LET r == train(Net, input, target)
       IN  /\ SetNet(r.net)
           /\ call' = MkCall("train", input, target, Outcome(r.ok),
                             << >>, Net, Len(cout.flushed \o cout.buffer))
    /\ memo' = NoMemo
    /\ calls' = calls + 1
    /\ UNCHANGED <<status, ctor_arg, tfeVars, cout>>

\* ------------------------------------------------------ train_for_epochs
\* (a variant that only rejects a dataset with too few targets)
tfe_rejects_fewer_targets(ins, tgts) == Len(ins) = 0 \/ Len(ins) > Len(tgts)
tfe_rejects(ins, tgts) == Len(ins) = 0 \/ Len(ins) # Len(tgts)

\* (a variant without the final-epoch clause)
report_due_periodic_only(ep, eps, every) == (ep + 1) % every = 0

\* the reporting condition, epoch being the 0-based loop variable
report_due(ep, eps, every) == (ep + 1) % every = 0 \/ ep = eps - 1

\* operator<< on std::cout, and std::endl (newline and flush)
write(stream, line) == [stream EXCEPT !.buffer = Append(@, line)]
\* (a variant that ends the line with "\n", leaving it in the buffer)
newline_only(stream) == stream
endl(stream) == [flushed |-> stream.flushed \o stream.buffer, buffer |-> << >>]

\* the loss loop of a report: sum of the per-sample errors of samples k..n
RECURSIVE mse_loop(_, _, _, _, _)
mse_loop(net, ins, tgts, k, acc) ==
    IF k > Len(ins) THEN Ok(acc)
    ELSE LET prediction == predict(net, ins[k])
         IN  IF ~prediction.ok THEN Thrown
             ELSE LET e == mean_squared_error(prediction.val, tgts[k])
                  IN  IF ~e.ok THEN Thrown
                      ELSE mse_loop(net, ins, tgts, k + 1, acc + e.val)

current_mse(net, ins, tgts) ==
    LET total == mse_loop(net, ins, tgts, 1, 0)
    IN  IF ~total.ok THEN Thrown ELSE Ok(total.val \div Len(ins))

NAN == "NaN"

\* (a variant that walks the inputs in the order of the last shuffle)
final_input_shuffled(ins, idx, k) == ins[idx[k]]

\* which input the k-th final prediction is computed from
final_input(ins, idx, k) == ins[k]

\* the final prediction loop, from the k-th input on
RECURSIVE final_loop(_, _, _, _, _)
final_loop(net, ins, idx, k, acc) ==
    IF k > Len(ins) THEN Ok(acc)
    ELSE LET prediction == predict(net, final_input(ins, idx, k))
         IN  IF ~prediction.ok THEN Thrown
             ELSE final_loop(net, ins, idx, k + 1,
                             Append(acc, IF Len(prediction.val) # 0
                                         THEN prediction.val[1] ELSE NAN))

TFE_Call(ins, tgts, eps, every) ==
    /\ UNCHANGED <<threadVars, extVars>>
    /\ CanCall
    /\ calls + (MaxCalls - 1) <= MaxCalls
    /\ calls' = calls + (MaxCalls - 1)
    /\ inputs' = ins /\ targets' = tgts
    /\ epochs' = eps /\ report_every_n_epochs' = every
    /\ epoch' = 0 /\ i' = 0 /\ steps' = 0
    /\ IF tfe_rejects(ins, tgts)
       THEN /\ call' = MkCall("train_for_epochs", ins, tgts, "InvalidArgument",
                              << >>, Net, Len(cout.flushed \o cout.buffer))
            /\ pc' = "idle"
            /\ indices' = << >>
       ELSE /\ call' = MkCall("train_for_epochs", ins, tgts, "running",
                              << >>, Net, Len(cout.flushed \o cout.buffer))
            /\ pc' = IF 0 < eps THEN "shuffle" ELSE "final"
            /\ indices' = [k \in 1..Len(ins) |-> k]
    /\ UNCHANGED <<status, ctor_arg, nnVars, memo, cout>>

TFE_Shuffle ==
    /\ UNCHANGED <<threadVars, extVars>>
    /\ pc = "shuffle"
    /\ \E p \in Perms(Len(inputs)) : indices' = p
    /\ i' = 1
    /\ pc' = "train"
    /\ UNCHANGED <<status, ctor_arg, nnVars, call, calls, memo, tfeArgs,
                   epoch, steps, cout>>

\* (a variant that takes the target at the position of the loop variable)
step_sample_target_by_position(net, ins, tgts, idx, k) ==
    backpropagate(net, ins[idx[k]], tgts[k])

\* the body of the training loop: one step on the sample the k-th entry of
\* the shuffled indices names
step_sample(net, ins, tgts, idx, k) ==
    backpropagate(net, ins[idx[k]], tgts[idx[k]])

TFE_TrainStep ==
    /\ UNCHANGED <<threadVars, extVars>>
    /\ pc = "train"
    /\ LET r == step_sample(Net, inputs, targets, indices, i)
       IN  /\ SetNet(r.net)
           /\ IF r.ok
              THEN /\ steps' = steps + 1
                   /\ i' = i + 1
                   /\ pc' = IF i + 1 > Len(inputs) THEN "report" ELSE "train"
                   /\ call' = call
              ELSE /\ pc' = "idle"
                   /\ call' = [call EXCEPT !.outcome = "InvalidArgument"]
                   /\ UNCHANGED <<steps, i>>
    /\ memo' = NoMemo
    /\ UNCHANGED <<status, ctor_arg, calls, tfeArgs, epoch, indices, cout>>

TFE_Report ==
    /\ UNCHANGED <<threadVars, extVars>>
    /\ pc = "report"
    /\ IF report_due(epoch, epochs, report_every_n_epochs)
       THEN LET m == current_mse(Net, inputs, targets)
            IN  IF m.ok
                THEN /\ cout' = endl(write(cout, [epoch |-> epoch + 1, mse |-> m.val]))
                     /\ epoch' = epoch + 1
                     /\ pc' = IF epoch + 1 < epochs THEN "shuffle" ELSE "final"
                     /\ call' = call
                ELSE /\ pc' = "idle"
                     /\ call' = [call EXCEPT !.outcome = "InvalidArgument"]
                     /\ UNCHANGED <<cout, epoch>>
       ELSE /\ epoch' = epoch + 1
            /\ pc' = IF epoch + 1 < epochs THEN "shuffle" ELSE "final"
            /\ UNCHANGED <<cout, call>>
    /\ UNCHANGED <<status, ctor_arg, nnVars, calls, memo, tfeArgs, indices, i, steps>>

TFE_Final ==
    /\ UNCHANGED <<threadVars, extVars>>
    /\ pc = "final"
    /\ LET f == final_loop(Net, inputs, indices, 1, << >>)
       IN  call' = IF f.ok
                   THEN [call EXCEPT !.outcome = "ok", !.ret = f.val]
                   ELSE [call EXCEPT !.outcome = "InvalidArgument"]
    /\ pc' = "idle"
    /\ UNCHANGED <<status, ctor_arg, nnVars, calls, memo, tfeArgs,
                   epoch, indices, i, steps, cout>>

\* ------------------------------------- predict beside backpropagate
\* Two threads on one instance, one inside backpropagate(input, target),
\* one inside predict(input).  backpropagate advances by its forward pass,
\* its delta computation and one layer of its update loop at a time,
\* predict by one layer of its loop at a time.
seqVars == <<call, calls, memo, tfeVars, cout, extVars>>

BP_Start(input, target) ==
    /\ status = "ok"
    /\ bp.pc = "idle"
    /\ bp' = [bp EXCEPT !.pc = "forward", !.input = input, !.target = target,
                        !.entry = Net]
    /\ expect' = backpropagate(Net, input, target)
    /\ UNCHANGED <<status, ctor_arg, nnVars, seqVars, pr>>

BP_Forward ==
    /\ bp.pc = "forward"
    /\ LET fp == forward_pass(Net, bp.input)
       IN  /\ SetNet(fp.net)
           /\ bp' = IF fp.ok
                    THEN [bp EXCEPT !.pc = "deltas", !.predicted_output = fp.val]
                    ELSE [bp EXCEPT !.pc = "thrown"]
    /\ UNCHANGED <<status, ctor_arg, seqVars, pr, expect>>

BP_Deltas ==
    /\ bp.pc = "deltas"
    /\ IF Len(bp.target) # layer_sizes[Len(layer_sizes)]
       THEN bp' = [bp EXCEPT !.pc = "thrown"]
       ELSE LET deltas == compute_deltas(Net, bp.predicted_output, bp.target)
            IN  bp' = IF deltas.ok
                      THEN [bp EXCEPT !.pc = "update", !.deltas = deltas.val, !.i = 1]
                      ELSE [bp EXCEPT !.pc = "thrown"]
    /\ UNCHANGED <<status, ctor_arg, nnVars, seqVars, pr, expect>>

BP_Update ==
    /\ bp.pc = "update"
    /\ LET u == update_layer(Net, bp.deltas, bp.i)
       IN  /\ SetNet(u.net)
           /\ bp' = IF ~u.ok THEN [bp EXCEPT !.pc = "thrown"]
                    ELSE IF bp.i + 1 > Len(layer_sizes) - 1
                    THEN [bp EXCEPT !.pc = "done"]
                    ELSE [bp EXCEPT !.i = bp.i + 1]
    /\ UNCHANGED <<status, ctor_arg, seqVars, pr, expect>>

PR_Start(input) ==
    /\ status = "ok"
    /\ pr.pc = "idle"
    /\ pr' = IF predict_rejects(Net, input)
             THEN [pr EXCEPT !.pc = "thrown", !.input = input]
             ELSE [pr EXCEPT !.pc = "layer", !.input = input, !.i = 1,
                             !.current_output = input]
    /\ UNCHANGED <<status, ctor_arg, nnVars, seqVars, bp, expect>>

\* One iteration of predict's loop.  When backpropagate is about to assign
\* weights_[i] and biases_[i] of the same layer, the read races with that
\* write: each component is computed from the old or from the new row, or
\* the read of the released buffer ends the process.
PR_Layer ==
    /\ pr.pc = "layer"
    /\ LET r == predict_layer(Net, pr.i, pr.current_output)
           racing == bp.pc = "update" /\ bp.i = pr.i
           last == pr.i + 1 > Len(layer_sizes) - 1
       IN  /\ SetNet(r.net)
           /\ IF ~r.ok
              THEN pr' = [pr EXCEPT !.pc = "thrown"] /\ bp' = bp
              ELSE \/ /\ \E v \in IF racing
                                  THEN LET u == update_layer(Net, bp.deltas, bp.i)
                                           n == predict_layer(u.net, pr.i,
                                                              pr.current_output)
                                       IN  IF u.ok /\ n.ok
                                           THEN { w \in [1..Len(r.val) ->
                                                           UNION {{r.val[k], n.val[k]} :
                                                                    k \in 1..Len(r.val)}] :
                                                    \A k \in 1..Len(r.val) :
                                                       w[k] \in {r.val[k], n.val[k]} }
                                           ELSE {r.val}
                                  ELSE {r.val} :
                           pr' = [pr EXCEPT !.current_output = v,
                                            !.i = pr.i + 1,
                                            !.pc = IF last THEN "done" ELSE "layer",
                                            !.during = bp.pc]
                      /\ bp' = bp
                   \/ /\ racing
                      /\ pr' = [pr EXCEPT !.pc = "crashed"]
                      /\ bp' = [bp EXCEPT !.pc = "crashed"]
    /\ UNCHANGED <<status, ctor_arg, seqVars, expect>>

NextThreads ==
    \/ status = "unconstructed" /\
          \E sizes \in LayerChoices, lr \in LearningRates, seed \in Seeds :
             Construct(sizes, lr, seed)
    \/ \E input \in Vecs, target \in TargetVecs : BP_Start(input, target)
    \/ BP_Forward
    \/ BP_Deltas
    \/ BP_Update
    \/ \E input \in Vecs : PR_Start(input)
    \/ PR_Layer

SpecThreads == Init /\ [][NextThreads]_vars

\* ------------------------------------------- LinearRegression operations
nnAll == <<status, ctor_arg, nnVars, call, calls, memo, tfeVars, cout, threadVars>>

\* values of the samples, and the datasets a caller holds
LRNums == { 0, 1, 2 }
RVals == { R(k) : k \in LRNums }
NonDecreasing(k) ==
    { f \in [1..k -> LRNums] : \A a, b \in 1..k : a < b => f[a] <= f[b] }
Slopes == { -1, 0, 1 }
Intercepts == { 0, 1 }
\* X in non-decreasing order; y on the line of slope m and intercept b,
\* except that the last point may lie 1 above it
LRDatasets ==
    UNION { { << [j \in 1..k |-> R(f[j])],
                 [j \in 1..k |-> R(m * f[j] + b + (IF j = noisy THEN 1 ELSE 0))] >> :
                f \in NonDecreasing(k), m \in Slopes, b \in Intercepts,
                noisy \in {0, k} } : k \in 0..MaxPoints }

\* the datasets and hyperparameters given to the gradient descent
FitDatasets ==
    { << << >>, << >> >>,
      << <<R(1)>>, <<R(1)>> >>,
      << <<R(0), R(1)>>, <<R(0), R(1)>> >>,
      << <<R(1), R(1)>>, <<R(0), R(2)>> >>,
      << <<R(1), R(1), R(1)>>, <<R(1), R(1), R(1)>> >> }
FitLearningRates == { Zero, One }
\* a slow descent towards a small target
SlowRuns == { << [n |-> 1, d |-> 4], << <<R(1)>>, <<[n |-> 1, d |-> 512]>> >> >> }
FitRuns == (FitLearningRates \X FitDatasets) \cup SlowRuns
FitIterations == { 0, 2, MaxIter }
FitBatchSizes == { -1, 0, 1, 2 }

\* what a call is given: the caller's X and y, two empty vectors, or X and y
\* with the last entry of one of them left out
Variants == { "data", "empty", "shortY", "shortX" }
Front(s) == SubSeq(s, 1, Len(s) - 1)
ArgX(which) == CASE which = "data" -> data.X
                 [] which = "empty" -> << >>
                 [] which = "shortY" -> data.X
                 [] which = "shortX" -> Front(data.X)
ArgY(which) == CASE which = "data" -> data.y
                 [] which = "empty" -> << >>
                 [] which = "shortY" -> Front(data.y)
                 [] which = "shortX" -> data.y

\* the vectors given to the call in progress or last finished
CallX == ArgX(mcall.which)
CallY == ArgY(mcall.which)

ModelCanCall == mcall.constructed /\ fit.pc = "idle"

LM_Construct(lr, max_iter, batch_size, X, y) ==
    /\ ~mcall.constructed
    /\ model' = LinearRegression(lr, max_iter, batch_size)
    /\ data' = [X |-> X, y |-> y]
    /\ mcall' = [NoModelCall EXCEPT !.constructed = TRUE,
                                    !.pre = LinearRegression(lr, max_iter, batch_size)]
    /\ UNCHANGED <<fit, nnAll, parsed, drv>>

LM_FitAnalytical(which) ==
    /\ ModelCanCall
    /\ LET r == fit_analytical(model, ArgX(which), ArgY(which))
       IN  /\ model' = r.model
           /\ mcall' = [mcall EXCEPT !.op = "fit_analytical",
                                     !.which = which,
                                     !.outcome = Outcome(r.ok), !.ret = Zero,
                                     !.pre = model,
                                     !.fitted = @ \/ r.ok]
    /\ UNCHANGED <<data, fit, nnAll, parsed, drv>>

LM_GetMse(which) ==
    /\ ModelCanCall
    /\ LET r == get_mse(model, ArgX(which), ArgY(which))
       IN  mcall' = [mcall EXCEPT !.op = "get_mse",
                                  !.which = which,
                                  !.outcome = Outcome(r.ok),
                                  !.ret = IF r.ok THEN r.val ELSE Zero,
                                  !.pre = model]
    /\ UNCHANGED <<model, data, fit, nnAll, parsed, drv>>

LM_GetRSquared(which) ==
    /\ ModelCanCall
    /\ LET r == get_r_squared(model, ArgX(which), ArgY(which))
       IN  mcall' = [mcall EXCEPT !.op = "get_r_squared",
                                  !.which = which,
                                  !.outcome = Outcome(r.ok),
                                  !.ret = IF r.ok THEN r.val ELSE Zero,
                                  !.pre = model]
    /\ UNCHANGED <<model, data, fit, nnAll, parsed, drv>>

LM_Predict(x) ==
    /\ ModelCanCall
    /\ mcall' = [mcall EXCEPT !.op = "predict", !.which = "empty", !.x = x,
                              !.outcome = "ok", !.ret = LR_predict(model, x),
                              !.pre = model]
    /\ UNCHANGED <<model, data, fit, nnAll, parsed, drv>>

\* fit up to its outer loop; the descent itself is started on a model no
\* fit has succeeded on yet
LM_Fit(which) ==
    /\ ModelCanCall
    /\ mcall.fitted => fit_rejects(model, ArgX(which), ArgY(which))
    /\ LET X == ArgX(which)
           y == ArgY(which)
           entered == [mcall EXCEPT !.op = "fit", !.which = which, !.ret = Zero,
                                    !.pre = model]
       IN  IF fit_rejects(model, X, y)
           THEN /\ mcall' = [entered EXCEPT !.outcome = "InvalidArgument"]
                /\ fit' = NoFit
           ELSE IF 0 < model.max_iterations
           THEN /\ mcall' = [entered EXCEPT !.outcome = "running"]
                /\ fit' = [NoFit EXCEPT !.pc = "shuffle",
                                        !.indices = [k \in 1..Len(X) |-> k],
                                        !.batch_X = [k \in 1..model.batch_size |-> Zero],
                                        !.batch_y = [k \in 1..model.batch_size |-> Zero]]
           ELSE /\ mcall' = [entered EXCEPT !.outcome = "ok", !.fitted = TRUE]
                /\ fit' = [NoFit EXCEPT !.indices = [k \in 1..Len(X) |-> k]]
    /\ UNCHANGED <<model, data, nnAll, parsed, drv>>

LM_FitShuffle ==
    /\ fit.pc = "shuffle"
    /\ \E p \in Perms(Len(CallX)) :
          fit' = [fit EXCEPT !.indices = p, !.batch_start = 0, !.pc = "batch",
                             !.batches = << >>]
    /\ UNCHANGED <<model, data, mcall, nnAll, parsed, drv>>

LM_FitBatch ==
    /\ fit.pc = "batch"
    /\ model' = fit_batch(model, CallX, CallY, fit.indices, fit.batch_start)
    /\ fit' = [fit EXCEPT !.batch_start = @ + model.batch_size,
                          !.pc = IF fit.batch_start + model.batch_size < Len(CallX)
                                 THEN "batch" ELSE "epoch_end",
                          !.batches = Append(@, batch_samples(model, Len(CallX),
                                                              fit.indices,
                                                              fit.batch_start))]
    /\ UNCHANGED <<data, mcall, nnAll, parsed, drv>>

\* the end of one pass of the outer loop: the loss, the early stopping
\* test, and the loop's ++iter and condition
LM_FitEpochEnd ==
    /\ fit.pc = "epoch_end"
    /\ LET epoch_mse == LR_mean_squared_error(model, CallX, CallY).val
           improved == improves(fit.best_mse, epoch_mse)
           count == IF improved THEN 0 ELSE fit.no_improvement_count + 1
           break == ~improved /\ count >= patience
           more == ~break /\ fit.iter + 1 < model.max_iterations
       IN  /\ fit' = [fit EXCEPT !.best_mse = IF improved THEN epoch_mse ELSE @,
                                 !.no_improvement_count = count,
                                 !.iter = IF break THEN @ ELSE @ + 1,
                                 !.epochs_run = @ + 1,
                                 !.stopped = break,
                                 !.epoch_mses = Append(@, epoch_mse),
                                 !.pc = IF more THEN "shuffle" ELSE "idle"]
           /\ mcall' = IF more THEN mcall
                       ELSE [mcall EXCEPT !.outcome = "ok", !.fitted = TRUE]
    /\ UNCHANGED <<model, data, nnAll, parsed, drv>>

\* ------------------------------------------- a mini-batch run by threads
\* The two loops of a mini-batch are "omp parallel for" loops: every
\* iteration is run once, by some thread, and a loop ends when all its
\* iterations have.  The gradient loop has a reduction clause: each thread
\* adds to its private copy of the two sums, and the copies are added to
\* the shared variables when the loop ends.
Threads == 1..MaxThreads
ZeroSums == [slope_gradient |-> Zero, intercept_gradient |-> Zero]
NoWorker == [pc |-> "idle", i |-> 0, sums |-> ZeroSums]

current_batch_size == Min(model.batch_size, Len(CallX) - fit.batch_start)

\* (a variant without the reduction clause: every thread adds to the
\* shared variables)
reduction_copy_shared(t) == 0

\* the copy of the sums thread t adds to
reduction_copy(t) == t

\* entry of the batch preparation loop
OMP_ForkPrepare ==
    /\ fit.pc = "batch"
    /\ fit' = [fit EXCEPT !.pc = "prepare",
                          !.todo = 1..current_batch_size,
                          !.w = [t \in Threads |-> NoWorker],
                          !.overlapped = FALSE]
    /\ UNCHANGED <<model, data, mcall, nnAll, parsed, drv>>

\* thread t runs one iteration of the batch preparation loop
OMP_Prepare(t) ==
    /\ fit.pc = "prepare"
    /\ \E it \in fit.todo :
          LET idx == fit.indices[fit.batch_start + it]
          IN  fit' = [fit EXCEPT !.todo = @ \ {it},
                                 !.batch_X[it] = CallX[idx],
                                 !.batch_y[it] = CallY[idx],
                                 !.w[t].i = it]
    /\ UNCHANGED <<model, data, mcall, nnAll, parsed, drv>>

\* end of the preparation loop, the two sums set to 0.0, entry of the
\* gradient loop
OMP_ForkGradient ==
    /\ fit.pc = "prepare" /\ fit.todo = {}
    /\ fit' = [fit EXCEPT !.pc = "gradient",
                          !.todo = 1..current_batch_size,
                          !.sums = [c \in 0..MaxThreads |-> ZeroSums],
                          !.w = [t \in Threads |-> NoWorker]]
    /\ UNCHANGED <<model, data, mcall, nnAll, parsed, drv>>

\* thread t takes an iteration of the gradient loop: it computes the error
\* and reads the sums it is about to add to
OMP_Load(t) ==
    /\ fit.pc = "gradient" /\ fit.w[t].pc = "idle"
    /\ \E it \in fit.todo :
          LET prediction == RAdd(RMul(model.slope, fit.batch_X[it]), model.intercept)
              error == RSub(prediction, fit.batch_y[it])
              old == fit.sums[reduction_copy(t)]
          IN  fit' = [fit EXCEPT
                 !.todo = @ \ {it},
                 !.w[t] = [pc |-> "loaded", i |-> it,
                           sums |-> [slope_gradient |->
                                        RAdd(old.slope_gradient,
                                             RMul(error, fit.batch_X[it])),
                                     intercept_gradient |->
                                        RAdd(old.intercept_gradient, error)]],
                 !.overlapped = @ \/ \E u \in Threads : fit.w[u].pc = "loaded"]
    /\ UNCHANGED <<model, data, mcall, nnAll, parsed, drv>>

\* thread t stores the sums of its iteration
OMP_Store(t) ==
    /\ fit.pc = "gradient" /\ fit.w[t].pc = "loaded"
    /\ fit' = [fit EXCEPT !.sums[reduction_copy(t)] = fit.w[t].sums,
                          !.w[t].pc = "idle"]
    /\ UNCHANGED <<model, data, mcall, nnAll, parsed, drv>>

\* end of the gradient loop: the copies are combined, then the parameter
\* update and the step of the batch loop
OMP_JoinUpdate ==
    /\ fit.pc = "gradient" /\ fit.todo = {}
    /\ \A t \in Threads : fit.w[t].pc = "idle"
    /\ LET slope_gradient ==
              RSum([c \in 1..(MaxThreads + 1) |-> fit.sums[c - 1].slope_gradient],
                   MaxThreads + 1)
           intercept_gradient ==
              RSum([c \in 1..(MaxThreads + 1) |-> fit.sums[c - 1].intercept_gradient],
                   MaxThreads + 1)
           batch_scale == RDiv(One, R(current_batch_size))
       IN  model' = [model EXCEPT
              !.slope = RSub(@, RMul(model.learning_rate,
                                     RMul(slope_gradient, batch_scale))),
              !.intercept = RSub(@, RMul(model.learning_rate,
                                         RMul(intercept_gradient, batch_scale)))]
    /\ fit' = [fit EXCEPT !.batch_start = @ + model.batch_size,
                          !.pc = IF fit.batch_start + model.batch_size < Len(CallX)
                                 THEN "batch" ELSE "epoch_end",
                          !.batches = Append(@, batch_samples(model, Len(CallX),
                                                              fit.indices,
                                                              fit.batch_start))]
    /\ UNCHANGED <<data, mcall, nnAll, parsed, drv>>

\* a caller of the default-constructed model
NextLR ==
    \/ ~mcall.constructed /\
          \E d \in LRDatasets :
             LM_Construct(default_lr, default_max_iter, default_batch_size, d[1], d[2])
    \/ ModelCanCall /\ \E which \in Variants \ {"shortX"} : LM_FitAnalytical(which)
    \/ ModelCanCall /\ \E which \in Variants \ {"shortX"} : LM_GetMse(which)
    \/ ModelCanCall /\ \E which \in Variants \ {"shortX"} : LM_GetRSquared(which)
    \/ ModelCanCall /\ \E x \in RVals : LM_Predict(x)

SpecLR == Init /\ [][NextLR]_vars

\* a caller of the gradient descent
NextFit ==
    \/ ~mcall.constructed /\
          \E run \in FitRuns, max_iter \in FitIterations,
             batch_size \in FitBatchSizes :
             LM_Construct(run[1], max_iter, batch_size, run[2][1], run[2][2])
    \/ ModelCanCall /\ \E which \in Variants : LM_Fit(which)
    \/ LM_FitShuffle
    \/ LM_FitBatch
    \/ LM_FitEpochEnd
    \/ ModelCanCall /\ \E which \in Variants : LM_FitAnalytical(which)
    \/ ModelCanCall /\ \E which \in Variants : LM_GetMse(which)
    \/ ModelCanCall /\ \E which \in Variants : LM_GetRSquared(which)
    \/ ModelCanCall /\ \E x \in RVals : LM_Predict(x)

SpecFit == Init /\ [][NextFit]_vars

\* a fit whose mini-batches are run by threads
OmpDatasets ==
    { << <<R(0), R(1)>>, <<R(0), R(1)>> >>,
      << <<R(0), R(1), R(2)>>, <<R(1), R(0), R(2)>> >> }
OmpIterations == { 1, 2 }
OmpBatchSizes == { 2, 3 }

NextOmp ==
    \/ ~mcall.constructed /\
          \E d \in OmpDatasets, max_iter \in OmpIterations, batch_size \in OmpBatchSizes :
             LM_Construct(One, max_iter, batch_size, d[1], d[2])
    \/ ModelCanCall /\ ~mcall.fitted /\ LM_Fit("data")
    \/ LM_FitShuffle
    \/ OMP_ForkPrepare
    \/ \E t \in Threads : OMP_Prepare(t)
    \/ OMP_ForkGradient
    \/ \E t \in Threads : OMP_Load(t)
    \/ \E t \in Threads : OMP_Store(t)
    \/ OMP_JoinUpdate
    \/ LM_FitEpochEnd

SpecOmp == Init /\ [][NextOmp]_vars

\* ------------------------------------------------- the parsers, called
Chars == { "0", "1", ",", "-", " ", "a" }
Strings == UNION { [1..k -> Chars] : k \in 0..MaxStr }

ParseVector(s) ==
    /\ parsed' = [fn |-> "parseVector", s |-> s, ok |-> parseVector(s).ok,
                  val |-> IF parseVector(s).ok THEN parseVector(s).val ELSE << >>]
    /\ UNCHANGED <<nnAll, lrVars, drv>>

ParseLayerSizes(s) ==
    /\ parsed' = [fn |-> "parseLayerSizes", s |-> s, ok |-> parseLayerSizes(s).ok,
                  val |-> IF parseLayerSizes(s).ok THEN parseLayerSizes(s).val
                          ELSE << >>]
    /\ UNCHANGED <<nnAll, lrVars, drv>>

NextParse ==
    \/ parsed.fn = "none" /\ \E s \in Strings : ParseVector(s)
    \/ parsed.fn = "none" /\ \E s \in Strings : ParseLayerSizes(s)

SpecParse == Init /\ [][NextParse]_vars

\* ------------------------------------------------------------ the driver
\* main, operation nn_train_predict, with argc = 5.
\* std::stod and std::stoi: the leading number is converted and what follows
\* it is ignored; without a number they throw std::invalid_argument
stod(s) == IF scan_number(s).end = 1 THEN Thrown ELSE Ok(scan_number(s).val * Scale)
stoi(s) == IF scan_number(s).end = 1 THEN Thrown ELSE Ok(scan_number(s).val)

\* the flat vectors as vector<Vector>, one scalar sample per value
to_samples(flat) == [k \in 1..Len(flat) |-> <<flat[k]>>]

\* the value the driver leaves to the class for report_every_n_epochs
default_report_every_n_epochs == 10

\* the statements of main up to the creation of the network: FALSE when one
\* of them returns 1 or throws
checks_pass(layers, lr, eps, xline, yline) ==
    LET ls == parseLayerSizes(layers)
        X == readAndParseVectorFromStdin(xline)
        y == readAndParseVectorFromStdin(yline)
    IN  /\ ls.ok /\ stod(lr).ok /\ stoi(eps).ok
        /\ ~(stoi(eps).val <= 0)
        /\ X.ok /\ y.ok
        /\ ~(X.val = << >> \/ y.val = << >>)
        /\ ~(Len(X.val) # Len(y.val))
        /\ ~(ls.val[1] # 1)
        /\ ~(ls.val[Len(ls.val)] # 1)

Drv_Main(layers, lr, eps, xline, yline) ==
    /\ drv.pc = "start"
    /\ IF checks_pass(layers, lr, eps, xline, yline)
       THEN drv' = [pc |-> "run", layers |-> layers, lr |-> lr, eps |-> eps,
                    xline |-> xline, yline |-> yline,
                    layer_sizes |-> parseLayerSizes(layers).val,
                    learning_rate |-> stod(lr).val,
                    epochs |-> stoi(eps).val,
                    X_train_flat |-> readAndParseVectorFromStdin(xline).val,
                    y_train_flat |-> readAndParseVectorFromStdin(yline).val,
                    cout0 |-> Len(cout.flushed \o cout.buffer)]
       ELSE drv' = [NoDriver EXCEPT !.pc = "exit1", !.layers = layers, !.lr = lr,
                                    !.eps = eps, !.xline = xline, !.yline = yline]
    /\ UNCHANGED <<nnAll, lrVars, parsed>>

\* the final MSE main computes from the returned predictions
RECURSIVE final_mse_loop(_, _, _, _)
final_mse_loop(final_predictions_flat, y_train_flat, k, acc) ==
    IF k > Len(final_predictions_flat) THEN acc
    ELSE LET error == final_predictions_flat[k] - y_train_flat[k]
         IN  final_mse_loop(final_predictions_flat, y_train_flat, k + 1,
                            acc + FMul(error, error))

\* (a variant that leaves out the division by the number of predictions)
final_mse_not_averaged(final_predictions_flat, y_train_flat) ==
    IF Len(final_predictions_flat) = Len(y_train_flat)
    THEN final_mse_loop(final_predictions_flat, y_train_flat, 1, 0)
    ELSE NAN

final_mse(final_predictions_flat, y_train_flat) ==
    IF Len(final_predictions_flat) = Len(y_train_flat)
    THEN final_mse_loop(final_predictions_flat, y_train_flat, 1, 0)
            \div Len(final_predictions_flat)
    ELSE NAN

\* printVector: the values in order, separated by commas
printVector(vec) == vec

\* (a variant that prints the predictions before the two other lines)
print_results_predictions_first(stream, duration, mse, final_predictions_flat) ==
    endl(write(endl(write(endl(write(stream,
        [kind |-> "nn_predictions", val |-> printVector(final_predictions_flat)])),
        [kind |-> "training_time_ms", val |-> duration])),
        [kind |-> "final_mse", val |-> mse]))

\* the three output statements that end a run
print_results(stream, duration, mse, final_predictions_flat) ==
    endl(write(endl(write(endl(write(stream,
        [kind |-> "training_time_ms", val |-> duration])),
        [kind |-> "final_mse", val |-> mse])),
        [kind |-> "nn_predictions", val |-> printVector(final_predictions_flat)]))

Durations == {0, 1}

\* NeuralNetwork nn(layer_sizes, learning_rate)
Drv_Construct(seed) ==
    /\ drv.pc = "run"
    /\ Construct(drv.layer_sizes, drv.learning_rate, seed)

\* nn.train_for_epochs(X_train_vec, y_train_vec, epochs)
Drv_TrainForEpochs(every) ==
    /\ drv.pc = "run"
    /\ status = "ok" /\ call.op = "none"
    /\ TFE_Call(to_samples(drv.X_train_flat), to_samples(drv.y_train_flat),
                drv.epochs, every)

\* what follows the call: the output and return 0, or a handler and return 1
Drv_Output(duration) ==
    /\ drv.pc = "run"
    /\ status = "ctor_failed" \/ (call.op = "train_for_epochs" /\ pc = "idle")
    /\ IF status = "ok" /\ call.outcome = "ok"
       THEN /\ cout' = print_results(cout, duration,
                                     final_mse(call.ret, drv.y_train_flat), call.ret)
            /\ drv' = [drv EXCEPT !.pc = "done"]
       ELSE /\ drv' = [drv EXCEPT !.pc = "exit1"]
            /\ cout' = cout
    /\ UNCHANGED <<status, ctor_arg, nnVars, call, calls, memo, tfeVars,
                   threadVars, lrVars, parsed>>

LayerArgs ==
    { <<"1", "-", "1">>, <<"1", "-", "2", "-", "1">>, <<"1", "-", "-", "1">>,
      <<"2", "-", "1">>, <<"1", "-", "2">>, <<"1">>, <<"1", "-", "a">> }
LearningRateArgs == { <<"0">>, <<"1">>, <<"a">> }
EpochArgs == { <<"-", "1">>, <<"0">>, <<"1">>, <<"2">>, <<"3">>, <<"a">> }
StdinLines ==
    { << >>, <<"0">>, <<"1">>, <<"0", ",", "1">>, <<"1", ",", "0">>,
      <<" ", "1", ",", "1", " ">>, <<"1", ",", "a">> }
ReportIntervals == 1..MaxReport \cup {default_report_every_n_epochs}

NextDriver ==
    \/ drv.pc = "start" /\
          \E layers \in LayerArgs, lr \in LearningRateArgs, eps \in EpochArgs,
             xline \in StdinLines, yline \in StdinLines :
                /\ stoi(eps).ok => stoi(eps).val <= MaxEpochs
                /\ Drv_Main(layers, lr, eps, xline, yline)
    \/ drv.pc = "run" /\ status = "unconstructed" /\
          \E seed \in Seeds : Drv_Construct(seed)
    \/ drv.pc = "run" /\ \E every \in ReportIntervals : Drv_TrainForEpochs(every)
    \/ drv.pc = "run" /\ TFE_Shuffle
    \/ drv.pc = "run" /\ TFE_TrainStep
    \/ drv.pc = "run" /\ TFE_Report
    \/ drv.pc = "run" /\ TFE_Final
    \/ \E duration \in Durations : Drv_Output(duration)

SpecDriver == Init /\ [][NextDriver]_vars

\* ---------------------------------------------------------- specification
Next ==
    \/ status = "unconstructed" /\
          \E sizes \in LayerChoices, lr \in LearningRates, seed \in Seeds :
             Construct(sizes, lr, seed)
    \/ CanCall /\ \E input \in Vecs : Predict(input)
    \/ CanCall /\ \E input \in Vecs : ForwardPass(input)
    \/ CanCall /\ \E input \in Vecs, target \in TargetVecs : Train(input, target)
    \/ CanCall /\ calls + (MaxCalls - 1) <= MaxCalls /\
          \E d \in Datasets, eps \in 0..MaxEpochs, every \in 1..MaxReport :
             TFE_Call(d[1], d[2], eps, every)
    \/ TFE_Shuffle
    \/ TFE_TrainStep
    \/ TFE_Report
    \/ TFE_Final

Spec == Init /\ [][Next]_vars

\* ================================================================ claims
AllOut == cout.flushed \o cout.buffer
\* the lines written, resp. flushed, since the current call was entered
CallReports == SubSeq(AllOut, call.cout0 + 1, Len(AllOut))
CallFlushed == SubSeq(cout.flushed, call.cout0 + 1, Len(cout.flushed))
EpochsOf(lines) == [k \in 1..Len(lines) |-> lines[k].epoch]

\* the 1-based epochs e <= n that are multiples of every or equal to eps
RECURSIVE DueUpTo(_, _, _)
DueUpTo(n, eps, every) ==
    IF n = 0 THEN << >>
    ELSE IF n % every = 0 \/ n = eps
         THEN Append(DueUpTo(n - 1, eps, every), n)
         ELSE DueUpTo(n - 1, eps, every)

InTFE == call.op = "train_for_epochs"
SameParameters == weights = call.pre.weights /\ biases = call.pre.biases

\* C1: a successful train_for_epochs returns one value per input, the k-th
\* being the first component of predict(inputs[k]) under the weights and
\* biases left by the last training step, whatever the shuffles were.
C1_FinalPredictionsInInputOrder ==
    (InTFE /\ call.outcome = "ok") =>
        /\ Len(call.ret) = Len(inputs)
        /\ \A k \in 1..Len(inputs) :
              /\ predict(Net, inputs[k]).ok
              /\ call.ret[k] = predict(Net, inputs[k]).val[1]

C1_Witness ==
    /\ InTFE /\ call.outcome = "ok"
    /\ Len(inputs) = 2 /\ epochs >= 1
    /\ indices = <<2, 1>>
    /\ call.ret[1] # call.ret[2]
    /\ ~SameParameters

\* C2: with epochs >= 1 and report_every_n_epochs >= 1 the epochs reported
\* so far are exactly the completed epochs that are a multiple of
\* report_every_n_epochs or equal to epochs, in increasing order; after a
\* successful call the final epoch is the last report and occurs once.
C2_ReportedEpochs ==
    (InTFE /\ epochs >= 1 /\ report_every_n_epochs >= 1) =>
        /\ EpochsOf(CallReports) = DueUpTo(epoch, epochs, report_every_n_epochs)
        /\ \A a, b \in 1..Len(CallReports) :
              a < b => CallReports[a].epoch < CallReports[b].epoch
        /\ call.outcome = "ok" =>
              /\ Len(CallReports) >= 1
              /\ CallReports[Len(CallReports)].epoch = epochs
              /\ Cardinality({k \in 1..Len(CallReports) :
                                 CallReports[k].epoch = epochs}) = 1

C2_Witness ==
    /\ InTFE /\ call.outcome = "ok"
    /\ epochs = 2 /\ report_every_n_epochs = 2
    /\ EpochsOf(CallReports) = <<2>>

\* C3: reports are emitted incrementally: nothing written stays in the
\* buffer; while the samples of 1-based epoch e + 1 are being trained, and
\* when that epoch's report is about to be produced, the reader has
\* exactly the reports due for epochs 1..e, written after e * n training
\* steps; at the return every due report has been flushed.
C3_ReportsFlushedBetweenEpochs ==
    InTFE =>
        /\ cout.buffer = << >>
        /\ pc \in {"shuffle", "train", "report"} =>
              EpochsOf(CallFlushed) = DueUpTo(epoch, epochs, report_every_n_epochs)
        /\ pc = "shuffle" => steps = epoch * Len(inputs)
        /\ pc = "train" => steps = epoch * Len(inputs) + (i - 1)
        /\ pc = "report" => steps = (epoch + 1) * Len(inputs)
        /\ call.outcome = "ok" =>
              /\ EpochsOf(CallFlushed) = DueUpTo(epochs, epochs, report_every_n_epochs)
              /\ steps = epochs * Len(inputs)

C3_Witness ==
    /\ InTFE /\ pc = "train"
    /\ epoch = 1 /\ epochs = 2 /\ report_every_n_epochs = 1
    /\ i = 2
    /\ EpochsOf(CallFlushed) = <<1>>

\* C4: train_for_epochs on an empty dataset or on inputs and targets of
\* different counts fails with InvalidArgument, having made no training
\* step, written no report and changed no weight or bias.
C4_RejectedDatasetHasNoEffect ==
    (InTFE /\ (Len(call.input) = 0 \/ Len(call.input) # Len(call.target))) =>
        /\ call.outcome = "InvalidArgument"
        /\ pc = "idle"
        /\ steps = 0
        /\ Len(AllOut) = call.cout0
        /\ SameParameters

C4_Witness ==
    /\ InTFE /\ call.outcome = "InvalidArgument"
    /\ Len(call.input) = 1 /\ Len(call.target) = 2
    /\ calls = MaxCalls

\* C5: whenever train_for_epochs fails with InvalidArgument the weights and
\* biases are those the call started with.
C5_NoPartialFailure ==
    (InTFE /\ call.outcome = "InvalidArgument") => SameParameters

C7_ConstructorValidatesLayerCount ==
    /\ status = "ctor_failed" <=> (status # "unconstructed" /\ Len(ctor_arg) < 2)
    /\ status = "ctor_failed" =>
          /\ weights = << >> /\ biases = << >>
          /\ calls = 0 /\ call.op = "none"
    /\ status = "ok" =>
          /\ layer_sizes = ctor_arg
          /\ Len(weights) = Len(layer_sizes) - 1
          /\ Len(biases) = Len(layer_sizes) - 1

C7_Witness == status = "ctor_failed" /\ Len(ctor_arg) = 1

\* C8: in every state of a constructed network, weights[t] has
\* layer_sizes[t+1] rows of layer_sizes[t] columns and biases[t] has
\* layer_sizes[t+1] entries, whatever calls were made and however they ended.
C8_ShapeInvariant ==
    status = "ok" =>
        /\ Len(weights) = Len(layer_sizes) - 1
        /\ Len(biases) = Len(layer_sizes) - 1
        /\ \A t \in 1..Len(layer_sizes) - 1 :
              /\ Len(weights[t]) = layer_sizes[t + 1]
              /\ \A r \in 1..Len(weights[t]) : Len(weights[t][r]) = layer_sizes[t]
              /\ Len(biases[t]) = layer_sizes[t + 1]

C8_Witness ==
    /\ status = "ok" /\ layer_sizes = <<1, 2, 1>>
    /\ InTFE /\ call.outcome = "InvalidArgument"
    /\ ~SameParameters

\* C9: a predict call leaves weights, biases, layer_outputs and
\* layer_inputs as they were, and the predict calls made since the last
\* training step returned equal outputs for equal inputs.
C9_PredictIsPure ==
    /\ call.op = "predict" => Net = call.pre
    /\ \A p, q \in memo.seen : p[1] = q[1] => p[2] = q[2]

C9_Witness ==
    /\ call.op = "predict" /\ call.outcome = "ok"
    /\ memo.n >= 2 /\ Cardinality(memo.seen) = 1
    /\ layer_outputs # << >>

\* C10: when a predict call and a backpropagate call on the same instance
\* have both finished, however their steps were interleaved, weights,
\* biases, layer_outputs and layer_inputs are what backpropagate alone
\* leaves from the state it was entered in.
C10_PredictBesideBackpropagate ==
    (bp.pc \in {"done", "thrown"} /\ pr.pc \in {"done", "thrown"}) =>
        /\ Net = expect.net
        /\ (bp.pc = "done") <=> expect.ok

C10_Witness ==
    /\ bp.pc = "done" /\ pr.pc = "done"
    /\ pr.during \in {"deltas", "update"}
    /\ pr.input # bp.input
    /\ Len(layer_sizes) = 3
    /\ weights # bp.entry.weights


\* ------------------------------------------------ LinearRegression claims
IsFitCall == mcall.op \in {"fit", "fit_analytical"}
SameLine == model.slope = mcall.pre.slope /\ model.intercept = mcall.pre.intercept

\* C11: fit_analytical and fit fail with InvalidArgument when X and y
\* differ in length or are empty, fit also when batch_size <= 0, and a failed
\* call of either leaves slope and intercept as they were before it.
C11_FitRejectsBadInput ==
    IsFitCall =>
        /\ (Len(CallX) # Len(CallY) \/ Len(CallX) = 0)
              => mcall.outcome = "InvalidArgument"
        /\ (mcall.op = "fit" /\ model.batch_size <= 0)
              => mcall.outcome = "InvalidArgument"
        /\ mcall.outcome = "InvalidArgument" => SameLine

C11_Witness ==
    /\ mcall.op = "fit" /\ mcall.outcome = "InvalidArgument"
    /\ model.batch_size = 0
    /\ Len(CallX) = 2 /\ Len(CallY) = 2
    /\ model.slope # Zero

\* C12: from construction on, as long as no fit or fit_analytical call has
\* completed successfully and none is running, slope and intercept are 0,
\* whatever reads and failed fits were made.
C12_ZeroUntilFitted ==
    (mcall.constructed /\ ~mcall.fitted /\ fit.pc = "idle") =>
        model.slope = Zero /\ model.intercept = Zero

C12_Witness ==
    /\ mcall.constructed /\ ~mcall.fitted
    /\ mcall.op = "fit" /\ mcall.outcome = "InvalidArgument"
    /\ model.learning_rate # Zero
    /\ Len(CallX) = 1 /\ Len(CallY) = 2

\* the points are those of one line and two of them differ in x
DistinctX(X) == \E a, b \in 1..Len(X) : X[a] # X[b]
OnLine(X, y, m, b) == \A k \in 1..Len(X) : y[k] = RAdd(RMul(m, X[k]), b)
\* the line through the first two points that differ in x
LineSlope(X, y) ==
    LET a == CHOOSE a \in 1..Len(X) : \E b \in 1..Len(X) : X[a] # X[b]
        b == CHOOSE b \in 1..Len(X) : X[a] # X[b]
    IN  RDiv(RSub(y[b], y[a]), RSub(X[b], X[a]))
LineIntercept(X, y) ==
    LET a == CHOOSE a \in 1..Len(X) : \E b \in 1..Len(X) : X[a] # X[b]
    IN  RSub(y[a], RMul(LineSlope(X, y), X[a]))
Constant(v) == \A a, b \in 1..Len(v) : v[a] = v[b]
Collinear(X, y) ==
    IF DistinctX(X) THEN OnLine(X, y, LineSlope(X, y), LineIntercept(X, y))
    ELSE Constant(y)

FittedOnData ==
    /\ mcall.op = "fit_analytical" /\ mcall.which = "data"
    /\ mcall.outcome = "ok"

C14_ConstantX ==
    (mcall.op = "fit_analytical" /\ mcall.which = "data"
       /\ Len(data.X) >= 1 /\ Constant(data.X)) =>
        /\ mcall.outcome = "ok"
        /\ model.slope = Zero
        /\ model.intercept = LR_mean(data.y).val

C14_Witness ==
    /\ mcall.op = "fit_analytical" /\ mcall.which = "data"
    /\ Len(data.X) = 3 /\ Constant(data.X) /\ ~Constant(data.y)
    /\ model.intercept.d = 3

\* C15: get_mse of two empty vectors returns 0.0, get_r_squared of them
\* fails with InvalidArgument, both fail with InvalidArgument when X and y
\* differ in length and succeed otherwise, and neither changes slope or
\* intercept.
C15_MetricsOnEmptyInput ==
    /\ mcall.op = "get_mse" =>
          /\ (mcall.outcome = "InvalidArgument") <=> (Len(CallX) # Len(CallY))
          /\ (Len(CallX) = 0 /\ Len(CallY) = 0) => mcall.ret = Zero
          /\ SameLine
    /\ mcall.op = "get_r_squared" =>
          /\ (mcall.outcome = "InvalidArgument")
                <=> (Len(CallX) # Len(CallY) \/ Len(CallX) = 0)
          /\ SameLine

C15_Witness ==
    /\ mcall.op = "get_mse" /\ mcall.which = "empty" /\ mcall.outcome = "ok"
    /\ mcall.fitted /\ model.slope # Zero /\ model.intercept # Zero
    /\ Len(data.X) >= 2

\* whether best_mse - epoch_mse exceeds 1e-6 * max(1, best_mse), in the
\* arithmetic of doubles (best_mse is +infinity until an epoch has set it)
ExceedsTolerance(best_mse, epoch_mse) ==
    IF isfinite(best_mse)
    THEN ExceedsScaled(RSub(best_mse, epoch_mse), RMax(One, best_mse), tolerance_digits)
    ELSE RLt(RMax(One, best_mse), RSub(best_mse, epoch_mse))

EpochMse == LR_mean_squared_error(model, CallX, CallY).val

\* what the end of an epoch does to fit's position: it stops exactly when
\* the counter has reached 5 or max_iterations epochs have run, never runs
\* more epochs than max_iterations, and no epoch ends with the counter
\* already at 5
StopsAsStated ==
    /\ fit'.epochs_run = fit.epochs_run + 1
    /\ fit'.epochs_run <= model.max_iterations
    /\ fit.no_improvement_count < patience
    /\ (fit'.pc = "idle") <=> (fit'.no_improvement_count = patience
                                \/ fit'.epochs_run = model.max_iterations)
    /\ fit'.pc # "idle" => fit'.pc = "shuffle"

RECURSIVE Pieces(_, _, _, _, _)
Pieces(s, delim, k, piece, acc) ==
    IF k > Len(s) THEN Append(acc, piece)
    ELSE IF s[k] = delim THEN Pieces(s, delim, k + 1, << >>, Append(acc, piece))
    ELSE Pieces(s, delim, k + 1, Append(piece, s[k]), acc)

\* t is, after white space in front, decimal digits (after a sign, if
\* signs are allowed) and nothing else
IsNumeral(t, signs) ==
    LET p == skip_space(t, 1)
        q == IF p <= Len(t) /\ t[p] \in signs THEN p + 1 ELSE p
    IN  q <= Len(t) /\ \A k \in q..Len(t) : t[k] \in Digits

\* C18: parseLayerSizes returns sizes exactly when its argument has at
\* least two hyphen-delimited segments and every segment is a positive
\* integer, and then returns the segments' values; every other string
\* fails with InvalidArgument.
C18_OnlyPositiveSegmentsParse ==
    parsed.fn = "parseLayerSizes" =>
        LET segs == Pieces(parsed.s, "-", 1, << >>, << >>)
            wellformed == /\ Len(segs) >= 2
                          /\ \A k \in 1..Len(segs) :
                                /\ IsNumeral(segs[k], {})
                                /\ scan_number(segs[k]).val > 0
        IN  /\ parsed.ok <=> wellformed
            /\ parsed.ok =>
                  parsed.val = [k \in 1..Len(segs) |-> scan_number(segs[k]).val]

\* C19: parseVector returns one number per comma-separated token, in
\* order, exactly when every token is a number in its entirety, and fails
\* with InvalidArgument otherwise; the empty string yields the empty vector.
C19_OnlyNumbersParse ==
    parsed.fn = "parseVector" =>
        LET toks == IF parsed.s = << >> THEN << >>
                    ELSE Pieces(parsed.s, ",", 1, << >>, << >>)
        IN  /\ parsed.ok <=> \A k \in 1..Len(toks) : IsNumeral(toks[k], {"-", "+"})
            /\ parsed.ok =>
                  parsed.val = [k \in 1..Len(toks) |-> scan_number(toks[k]).val * Scale]


\* the kind of a line of standard output: a progress line of
\* train_for_epochs or one of the three lines main writes
LineKind(line) == IF "kind" \in DOMAIN line THEN line.kind ELSE "epoch"

\* C17: when an nn_train_predict run returns 0, standard output is a
\* (possibly empty) block of epoch lines, then exactly one training_time_ms
\* line, one final_mse line and one nn_predictions line, in this order and
\* with nothing after them; the nn_predictions line holds one value per
\* input sample, the k-th being the trained network's prediction for the
\* k-th value of the X line.
C17_DriverOutputOrder ==
    drv.pc = "done" =>
        LET n == Len(AllOut)
        IN  /\ cout.buffer = << >>
            /\ n >= 3
            /\ \A k \in 1..(n - 3) : LineKind(AllOut[k]) = "epoch"
            /\ LineKind(AllOut[n - 2]) = "training_time_ms"
            /\ LineKind(AllOut[n - 1]) = "final_mse"
            /\ LineKind(AllOut[n]) = "nn_predictions"
            /\ Len(AllOut[n].val) = Len(drv.X_train_flat)
            /\ \A k \in 1..Len(drv.X_train_flat) :
                  AllOut[n].val[k] = predict(Net, <<drv.X_train_flat[k]>>).val[1]

\* a finished run over two samples with two progress lines and two
\* different predictions
C17_Witness ==
    /\ drv.pc = "done"
    /\ Len(drv.X_train_flat) = 2
    /\ Len(AllOut) = 5
    /\ LineKind(AllOut[1]) = "epoch" /\ LineKind(AllOut[2]) = "epoch"
    /\ AllOut[5].val[1] # AllOut[5].val[2]


\* the delta of layer l (1 = first hidden layer) for a forward pass fp from
\* the instance P and a target: output minus target at the output layer,
\* below it the deltas of the layer above carried back through the weights
\* P had at entry, times the sigmoid derivative at the layer's z
RECURSIVE DeltaOf(_, _, _, _)
DeltaOf(P, fp, target, l) ==
    IF l = Len(P.layer_sizes) - 1
    THEN [j \in 1..Len(fp.val) |-> fp.val[j] - target[j]]
    ELSE LET above == DeltaOf(P, fp, target, l + 1)
             z == fp.net.layer_inputs[l]
         IN  [j \in 1..Len(z) |->
                 FMul(SumTo([k \in 1..Len(above) |->
                               FMul(P.weights[l + 1][k][j], above[k])], Len(above)),
                      sigmoid_derivative(z[j]))]

\* C20: after a successful train(input, target) on an instance with
\* learning rate r, every weight W_l[i][j] is its value at entry minus
\* r * delta_l[i] * a_prev_l[j] and every bias b_l[i] its value at entry
\* minus r * delta_l[i], for every layer l, delta and a_prev being those of
\* the forward pass of this call from the entry state; with r = 0 weights
\* and biases are the ones at entry.
C20_UpdateRule ==
    (call.op = "train" /\ call.outcome = "ok") =>
        LET P == call.pre
            r == P.learning_rate
            fp == forward_pass(P, call.input)
        IN  /\ fp.ok
            /\ \A l \in 1..(Len(P.layer_sizes) - 1) :
                  LET delta == DeltaOf(P, fp, call.target, l)
                      a_prev == fp.net.layer_outputs[l]
                  IN  /\ Len(weights[l]) = Len(delta)
                      /\ Len(biases[l]) = Len(delta)
                      /\ \A n \in 1..Len(delta) :
                            /\ Len(weights[l][n]) = Len(a_prev)
                            /\ biases[l][n] = P.biases[l][n] - FMul(delta[n], r)
                            /\ \A j \in 1..Len(a_prev) :
                                  weights[l][n][j] =
                                     P.weights[l][n][j]
                                        - FMul(FMul(delta[n], a_prev[j]), r)
            /\ r = 0 => SameParameters

\* a step on a three-layer network that changed a weight and a bias of
\* both layers
C20_Witness ==
    /\ call.op = "train" /\ call.outcome = "ok"
    /\ layer_sizes = <<1, 2, 1>> /\ learning_rate # 0
    /\ \A l \in 1..2 : /\ weights[l] # call.pre.weights[l]
                       /\ biases[l] # call.pre.biases[l]

\* C21: after a successful forward_pass(input), layer_outputs has one entry
\* per layer, the first being the input and the k-th having layer_sizes[k]
\* elements, layer_inputs has one entry per layer after the input layer,
\* every hidden layer's stored activation is the sigmoid of its stored z,
\* the last layer's stored activation is its stored z and is the value
\* returned, and with no hidden layer the output is W * input + b.
C21_ForwardPassStoresEveryLayer ==
    (call.op = "forward_pass" /\ call.outcome = "ok") =>
        LET num_layers == Len(layer_sizes)
        IN  /\ Len(layer_outputs) = num_layers
            /\ layer_outputs[1] = call.input
            /\ \A k \in 1..num_layers : Len(layer_outputs[k]) = layer_sizes[k]
            /\ Len(layer_inputs) = num_layers - 1
            /\ \A k \in 1..(num_layers - 2) :
                  layer_outputs[k + 1] =
                     [j \in 1..Len(layer_inputs[k]) |-> sigmoid(layer_inputs[k][j])]
            /\ layer_outputs[num_layers] = layer_inputs[num_layers - 1]
            /\ call.ret = layer_outputs[num_layers]
            /\ num_layers = 2 =>
                  call.ret = [n \in 1..layer_sizes[2] |->
                                 SumTo([j \in 1..layer_sizes[1] |->
                                          FMul(weights[1][n][j], call.input[j])],
                                       layer_sizes[1]) + biases[1][n]]

\* a forward pass through a hidden layer whose activation differs from its z
C21_Witness ==
    /\ call.op = "forward_pass" /\ call.outcome = "ok"
    /\ layer_sizes = <<1, 2, 1>>
    /\ layer_outputs[2] # layer_inputs[1]
    /\ call.input # <<0>>

\* C22: on every network and every input predict and forward_pass both
\* fail or both succeed, and when they succeed they return equal vectors;
\* a finished predict or forward_pass call ended as the other function
\* would have on the instance the call was entered with.
C22_PredictEqualsForwardPass ==
    /\ status = "ok" =>
          \A input \in Vecs :
             LET p == predict(Net, input)
                 f == forward_pass(Net, input)
             IN  /\ p.ok <=> f.ok
                 /\ p.ok => p.val = f.val
    /\ call.op = "predict" =>
          LET f == forward_pass(call.pre, call.input)
          IN  /\ (call.outcome = "ok") <=> f.ok
              /\ f.ok => call.ret = f.val
    /\ call.op = "forward_pass" =>
          LET p == predict(call.pre, call.input)
          IN  /\ (call.outcome = "ok") <=> p.ok
              /\ p.ok => call.ret = p.val

\* a predict call through a hidden layer, with an
\* output that is not the output bias alone
C22_Witness ==
    /\ call.op = "predict" /\ call.outcome = "ok"
    /\ layer_sizes = <<1, 2, 1>>
    /\ call.ret # biases[2]
    /\ \E input \in Vecs : ~predict(Net, input).ok

\* C23: a step changes a weight or a bias only if it is the construction of
\* the network, a train call that succeeds, or a training step of
\* train_for_epochs; predict, forward_pass, a failing train, and the entry,
\* the shuffle, the loss report and the final prediction pass of
\* train_for_epochs leave all of them as they were.
C23_OnlyBackpropagateUpdates ==
    [][ (weights' # weights \/ biases' # biases) =>
           \/ status = "unconstructed"
           \/ (calls' = calls + 1 /\ call'.op = "train" /\ call'.outcome = "ok")
           \/ (pc = "train" /\ steps' = steps + 1) ]_vars

\* a finished train_for_epochs call that trained, reported and predicted,
\* on a network that predict and forward_pass were called on before
C23_Witness ==
    /\ InTFE /\ call.outcome = "ok"
    /\ steps >= 2 /\ Len(CallReports) >= 1 /\ Len(call.ret) >= 1
    /\ ~SameParameters
    /\ calls = MaxCalls

\* ------------------------------------------------ fit: epochs and batches
\* the smallest of the values of a non-empty sequence
RECURSIVE Smallest(_, _)
Smallest(seq, k) ==
    IF k = 1 THEN seq[1]
    ELSE LET rest == Smallest(seq, k - 1)
         IN  IF RLt(seq[k], rest) THEN seq[k] ELSE rest

FitHasRun == mcall.op = "fit" /\ fit.epoch_mses # << >>

\* C24 as stated: once an epoch of fit has completed, best_mse is the
\* smallest epoch_mse computed so far.
C24_Original ==
    FitHasRun => fit.best_mse = Smallest(fit.epoch_mses, Len(fit.epoch_mses))

\* C24 (amended): once an epoch of fit has completed, best_mse is the
\* epoch_mse of one of the epochs so far, and no epoch_mse so far is below
\* it by more than 1e-6 * max(1, best_mse).
C24_BestMseWithinTolerance ==
    FitHasRun =>
        /\ \E k \in 1..Len(fit.epoch_mses) : fit.best_mse = fit.epoch_mses[k]
        /\ \A k \in 1..Len(fit.epoch_mses) :
              ~ExceedsScaled(RSub(fit.best_mse, fit.epoch_mses[k]),
                             RMax(One, fit.best_mse), tolerance_digits)

\* a fit whose later epochs went below the tracked best, by less than the
\* tolerance
C24_Witness ==
    /\ FitHasRun /\ fit.epochs_run >= 3
    /\ RLt(Smallest(fit.epoch_mses, Len(fit.epoch_mses)), fit.best_mse)
    /\ fit.best_mse = fit.epoch_mses[1]

\* the batches of the current epoch laid end to end
RECURSIVE Flatten(_, _)
Flatten(seqs, k) == IF k = 0 THEN << >> ELSE Flatten(seqs, k - 1) \o seqs[k]

IsPermutation(seq, n) ==
    /\ Len(seq) = n
    /\ \A v \in 1..n : Cardinality({k \in 1..n : seq[k] = v}) = 1

\* the sum of error * factor over the samples of a batch, the error being
\* that of the model m on the sample
RECURSIVE GradientSum(_, _, _, _, _, _)
GradientSum(m, X, y, batch, k, with_x) ==
    IF k = 0 THEN Zero
    ELSE LET x == X[batch[k]]
             error == RSub(RAdd(RMul(m.slope, x), m.intercept), y[batch[k]])
         IN  RAdd(GradientSum(m, X, y, batch, k - 1, with_x),
                  IF with_x THEN RMul(error, x) ELSE error)

\* C25: in every epoch of fit the indices are a permutation of the sample
\* positions and the mini-batches are its consecutive slices: each batch
\* step takes the next slice, of batch_size samples or, for the last one,
\* of the 1..batch_size samples that remain; it moves slope and intercept
\* by learning_rate times the batch's gradient sum divided by the number of
\* samples in that batch; when the epoch's batches are done there were
\* ceil(n / batch_size) of them and every sample is in exactly one; no
\* other step of fit changes slope or intercept.
C25_MiniBatches ==
    [][/\ fit.pc = "batch" =>
             LET n == Len(CallX)
                 done == Flatten(fit.batches, Len(fit.batches))
                 batch == fit'.batches[Len(fit'.batches)]
                 size == Len(batch)
                 last == fit'.pc = "epoch_end"
             IN  /\ IsPermutation(fit.indices, n)
                 /\ Len(fit'.batches) = Len(fit.batches) + 1
                 /\ batch = SubSeq(fit.indices, Len(done) + 1, Len(done) + size)
                 /\ IF last THEN size >= 1 /\ size <= model.batch_size
                            ELSE size = model.batch_size
                 /\ last <=> (Len(done) + size = n)
                 /\ last => Len(fit'.batches)
                               = (n + model.batch_size - 1) \div model.batch_size
                 /\ last => IsPermutation(Flatten(fit'.batches, Len(fit'.batches)), n)
                 /\ model'.slope =
                       RSub(model.slope,
                            RMul(model.learning_rate,
                                 RDiv(GradientSum(model, CallX, CallY, batch, size, TRUE),
                                      R(size))))
                 /\ model'.intercept =
                       RSub(model.intercept,
                            RMul(model.learning_rate,
                                 RDiv(GradientSum(model, CallX, CallY, batch, size, FALSE),
                                      R(size))))
       /\ fit.pc \in {"shuffle", "epoch_end"} => model' = model]_vars

\* the second epoch of a fit on three samples with batch_size 2 has done
\* its two batches, of 2 samples and of 1
C25_Witness ==
    /\ mcall.op = "fit" /\ fit.pc = "epoch_end" /\ fit.epochs_run = 1
    /\ Len(CallX) = 3 /\ model.batch_size = 2
    /\ Len(fit.batches) = 2
    /\ Len(fit.batches[1]) = 2 /\ Len(fit.batches[2]) = 1
    /\ fit.indices # <<1, 2, 3>>
    /\ model.learning_rate # Zero

\* ------------------------------------------- train_for_epochs: its steps
\* C26: while train_for_epochs trains, indices is a permutation of the
\* sample positions and the i-th step of an epoch is one backpropagate call
\* on inputs[indices[i]] and targets[indices[i]]; steps completed are n per
\* finished epoch plus i - 1 in the running one, and the epoch's training
\* ends with its n-th step; no step outside the training loop is counted;
\* a call that returns has made epochs * n steps.
C26_OneStepPerSample ==
    [][/\ pc = "train" =>
             LET n == Len(inputs)
                 r == backpropagate(Net, inputs[indices[i]], targets[indices[i]])
             IN  /\ IsPermutation(indices, n)
                 /\ i \in 1..n
                 /\ steps = epoch * n + (i - 1)
                 /\ r.ok <=> (call'.outcome = "running")
                 /\ weights' = r.net.weights /\ biases' = r.net.biases
                 /\ r.ok => /\ steps' = steps + 1
                            /\ indices' = indices
                            /\ (pc' = "report") <=> (i = n)
                            /\ pc' # "report" => (pc' = "train" /\ i' = i + 1)
       /\ pc \in {"shuffle", "report", "final"} => steps' = steps
       /\ (pc = "final" /\ call'.outcome = "ok") =>
             steps = epochs * Len(inputs)]_vars

\* a call over two samples and two epochs has returned, its last epoch
\* having trained the samples in the order 2, 1
C26_Witness ==
    /\ InTFE /\ call.outcome = "ok"
    /\ Len(inputs) = 2 /\ epochs = 2 /\ steps = 4
    /\ indices = <<2, 1>>
    /\ ~SameParameters

\* ------------------------------------------------- fit: the parallel loops
BatchOfThreads ==
    SubSeq(fit.indices, fit.batch_start + 1, fit.batch_start + current_batch_size)

\* C27: while threads run the iterations of a mini-batch, slope and
\* intercept do not change; an iteration of the preparation loop writes
\* batch_X and batch_y at its own index only, with the sample the shuffle
\* puts there; a step of the gradient loop leaves the batch vectors alone
\* and is one thread's, changing only that thread's sums; and whatever the
\* order of the threads' steps, the update at the end of the loop moves
\* slope and intercept by learning_rate times the gradient sums over the
\* batch's samples, taken with the slope and intercept from before the
\* batch, divided by the batch's size.
C27_ParallelLoopsOrderFree ==
    [][/\ (fit.pc \in {"prepare", "gradient"} /\ fit'.pc \in {"prepare", "gradient"})
             => model' = model
       /\ (fit.pc = "prepare" /\ fit'.pc = "prepare") =>
             \E it \in fit.todo :
                /\ fit'.todo = fit.todo \ {it}
                /\ fit'.batch_X[it] = CallX[fit.indices[fit.batch_start + it]]
                /\ fit'.batch_y[it] = CallY[fit.indices[fit.batch_start + it]]
                /\ \A k \in 1..Len(fit.batch_X) :
                      k # it => /\ fit'.batch_X[k] = fit.batch_X[k]
                                /\ fit'.batch_y[k] = fit.batch_y[k]
       /\ (fit.pc = "gradient" /\ fit'.pc = "gradient") =>
             /\ fit'.batch_X = fit.batch_X /\ fit'.batch_y = fit.batch_y
             /\ \E t \in Threads :
                   /\ \A u \in Threads \ {t} : fit'.w[u] = fit.w[u]
                   /\ \A c \in (0..MaxThreads) \ {t} : fit'.sums[c] = fit.sums[c]
       /\ (fit.pc = "gradient" /\ fit'.pc \notin {"prepare", "gradient"}) =>
             LET size == current_batch_size
             IN  /\ model'.slope =
                       RSub(model.slope,
                            RMul(model.learning_rate,
                                 RDiv(GradientSum(model, CallX, CallY,
                                                  BatchOfThreads, size, TRUE),
                                      R(size))))
                 /\ model'.intercept =
                       RSub(model.intercept,
                            RMul(model.learning_rate,
                                 RDiv(GradientSum(model, CallX, CallY,
                                                  BatchOfThreads, size, FALSE),
                                      R(size))))]_vars

\* the update of a batch of three samples has been applied after two
\* threads were inside iterations of the gradient loop at the same time,
\* in the second epoch
C27_Witness ==
    /\ fit.pc = "epoch_end" /\ fit.epochs_run = 1
    /\ fit.overlapped
    /\ Len(fit.batches) = 1 /\ Len(fit.batches[1]) = 3
    /\ fit.w[1].i # 0 /\ fit.w[2].i # 0
    /\ fit.indices # <<1, 2, 3>>
    /\ model.slope # Zero

\* ------------------------------------------- backpropagate, step by step
\* C28: in a backpropagate call no weight and no bias changes before the
\* deltas are computed; the deltas are computed in one step, while weights
\* and biases are those of the call's entry: the last one is the forward
\* output minus the target, the one of hidden layer l is W_{l+1}, as it was
\* at entry, transposed, times delta_{l+1}, times the sigmoid derivative at
\* layer l's stored z, which is the z of this call's forward pass; the
\* update steps that follow leave the deltas as computed.
C28_DeltasBeforeUpdates ==
    [][/\ bp.pc \in {"forward", "deltas"} =>
             /\ weights' = weights /\ biases' = biases
             /\ weights = bp.entry.weights /\ biases = bp.entry.biases
       /\ (bp.pc = "deltas" /\ bp'.pc = "update") =>
             LET num_layers == Len(layer_sizes)
                 fp == forward_pass(bp.entry, bp.input)
             IN  /\ layer_inputs = fp.net.layer_inputs
                 /\ Len(bp'.deltas) = num_layers - 1
                 /\ bp'.deltas[num_layers - 1] =
                       [j \in 1..Len(bp.target) |-> bp.predicted_output[j] - bp.target[j]]
                 /\ \A l \in 1..(num_layers - 2) :
                       bp'.deltas[l] =
                          [j \in 1..layer_sizes[l + 1] |->
                              FMul(SumTo([k \in 1..layer_sizes[l + 2] |->
                                            FMul(bp.entry.weights[l + 1][k][j],
                                                 bp'.deltas[l + 1][k])],
                                         layer_sizes[l + 2]),
                                   sigmoid_derivative(layer_inputs[l][j]))]
       /\ bp.pc = "update" => bp'.deltas = bp.deltas]_vars

\* a finished call on a network with a hidden layer: the hidden delta was
\* not zero and the weights it was carried back through have been updated
C28_Witness ==
    /\ bp.pc = "done" /\ Len(layer_sizes) = 3
    /\ \E j \in 1..Len(bp.deltas[1]) : bp.deltas[1][j] # 0
    /\ weights[2] # bp.entry.weights[2]
    /\ weights[1] # bp.entry.weights[1]

\* ------------------------------------------------ backpropagate: its inputs
\* the instance with nothing stored from earlier passes
WithoutStoredPass(net) ==
    [net EXCEPT !.layer_outputs = << >>, !.layer_inputs = << >>]

\* what a backpropagate step on (input, target) leaves when it works from a
\* forward pass on input with the weights at entry and from nothing else
LeavesFreshResult(input, target) ==
    LET fp == forward_pass(WithoutStoredPass(Net), input)
        r == backpropagate(WithoutStoredPass(Net), input, target)
    IN  /\ weights' = r.net.weights /\ biases' = r.net.biases
        /\ fp.ok => /\ layer_outputs' = fp.net.layer_outputs
                    /\ layer_inputs' = fp.net.layer_inputs
                    /\ layer_outputs'[1] = input

\* C29: whatever calls came before, every backpropagate step, of a train
\* call or of train_for_epochs, leaves the weights and biases that it
\* leaves on an instance with the same weights and biases and nothing
\* stored from earlier passes, and when its forward pass went through, the
\* stored activations and pre-activations it works from are those of a
\* forward pass on its own input with the weights at its entry.
C29_NoStaleTransientState ==
    [][/\ (calls' = calls + 1 /\ call'.op = "train") =>
             LeavesFreshResult(call'.input, call'.target)
       /\ pc = "train" =>
             LeavesFreshResult(inputs[indices[i]], targets[indices[i]])]_vars

\* a train call on a network with a hidden layer that an earlier pass on
\* another input had left its activations in
C29_Witness ==
    /\ call.op = "train" /\ call.outcome = "ok"
    /\ Len(layer_sizes) = 3 /\ learning_rate # 0
    /\ call.pre.layer_outputs # << >>
    /\ call.pre.layer_outputs[1] # call.input
    /\ call.pre.layer_outputs[2] # layer_outputs[2]
    /\ ~SameParameters

\* C30: when an nn_train_predict run returns 0 (a single-output network,
\* epochs >= 1), there is at least one epoch line, the last epoch line carries
\* the requested epoch count, and the value of the final_mse line equals the
\* mse of that line: both are the mean squared error, over the training
\* samples, of the predictions of the network as it stands at the end of the
\* run, which are the predictions returned, and the network has taken exactly
\* epochs * samples training steps, none after the last epoch line's loss.
C30_FinalMseEqualsLastEpochMse ==
    drv.pc = "done" =>
        LET n == Len(AllOut)
            X == to_samples(drv.X_train_flat)
            y == to_samples(drv.y_train_flat)
            loss == [k \in 1..Len(X) |->
                        mean_squared_error(<<AllOut[n].val[k]>>, y[k]).val]
        IN  /\ n >= 4
            /\ LineKind(AllOut[n - 3]) = "epoch"
            /\ AllOut[n - 3].epoch = drv.epochs
            /\ LineKind(AllOut[n - 1]) = "final_mse"
            /\ AllOut[n - 1].val = AllOut[n - 3].mse
            /\ AllOut[n - 3].mse = current_mse(Net, X, y).val
            /\ AllOut[n - 1].val = SumTo(loss, Len(X)) \div Len(X)
            /\ steps = drv.epochs * Len(X)

\* a finished run of two epochs over two samples whose two epoch lines carry
\* different losses, the final_mse line agreeing with the second and being
\* neither zero nor the sum of the squared errors
C30_Witness ==
    /\ drv.pc = "done"
    /\ drv.epochs = 2
    /\ Len(drv.X_train_flat) = 2
    /\ Len(AllOut) = 5
    /\ LineKind(AllOut[1]) = "epoch" /\ LineKind(AllOut[2]) = "epoch"
    /\ AllOut[1].mse # AllOut[2].mse
    /\ AllOut[4].val = AllOut[2].mse
    /\ AllOut[4].val # 0
    /\ AllOut[4].val # final_mse_loop(AllOut[5].val, drv.y_train_flat, 1, 0)

====
